---- MODULE Spec2Model ----
(***************************************************************************)
(* State-machine model of the UI state layer of claude-code-tool-manager:  *)
(* the notification center, the MCP library store and the projects store.  *)
(* Every asynchronous method is split at its await: the part before the    *)
(* await is one action (the call), the continuation after the backend      *)
(* promise settles is another (the settle).                                *)
(***************************************************************************)
EXTENDS Integers, Sequences, FiniteSets, TLC

VARIABLES
    \* ---- notification center ----
    notifications,   \* the list of notification records, in list order
    timers,          \* scheduled setTimeout callbacks: [id, due]
    now,             \* the clock, in milliseconds
    uuidCount,       \* how many identifiers crypto.randomUUID has handed out
    addLog,          \* history: one record [id, at, duration] per add call
    dismissed,       \* history: ids hit by remove(id) of a present id, or by clear()
    lastId,          \* what the last add call returned (0: no add yet)
    \* ---- MCP library store ----
    mcps,            \* the cache: a list of Mcp records
    isLoading,
    error,           \* {} for null, {text} for a message
    searchQuery,
    selectedType,
    inflight,        \* backend calls awaiting their response, in call order
    settled,         \* the last store call to settle: the backend's answer, the promise's fate
    \* ---- projects store ----
    projects,        \* the cache: a list of Project records
    globalMcps,      \* the cache: a list of GlobalMcp records
    pIsLoading,      \* ProjectsState.isLoading
    pError,          \* ProjectsState.error: {} for null, {text} for a message
    backend,         \* the backend's MCP collection, its next id, and whether it has
                     \* handled a call while another call of the store was pending
    \* ---- debug log relay, console interceptor, timing wrapper ----
    isEnabled,       \* DebugState.isEnabled
    logFilePath,     \* DebugState.logFilePath: {} for null, {path} for a path
    dIsLoading,      \* DebugState.isLoading
    interceptorInstalled,
    interceptorCall, \* the last install/uninstall call and whether it took effect
    console,         \* what each console entry point is bound to
    dInflight,       \* backend calls of the debug layer awaiting their response
    dSettled,        \* the last debug-layer call to settle
    lastConsole,     \* the last console call: entry point and what it invoked, in order
    \* ---- what's-new store ----
    isOpen,
    wIsLoading,      \* WhatsNewState.isLoading
    release,         \* {} for null, {record} for a ReleaseInfo
    wError,          \* WhatsNewState.error: {} for null, {text} for a message
    lastSeen,        \* the localStorage item: {} when not stored, {version}
    wPending,        \* what the store's calls are awaiting, in call order
    wSettled         \* the last what's-new call to settle

notifVars == <<notifications, timers, now, uuidCount, addLog, dismissed, lastId>>

mcpVars == <<mcps, isLoading, error, searchQuery, selectedType, inflight, settled,
            projects, globalMcps, pIsLoading, pError, backend>>

\* The MCP library store's own fields, and the projects store's.
libVars == <<mcps, isLoading, error, searchQuery, selectedType>>
projVars == <<projects, globalMcps, pIsLoading, pError>>

debugVars == <<isEnabled, logFilePath, dIsLoading, interceptorInstalled, interceptorCall, console,
              dInflight, dSettled, lastConsole>>

\* The debug store's own fields, and the interceptor's state.
relayVars == <<isEnabled, logFilePath, dIsLoading>>
interceptorVars == <<interceptorInstalled, interceptorCall, console>>

newsVars == <<isOpen, wIsLoading, release, wError, lastSeen, wPending, wSettled>>

vars == <<notifications, timers, now, uuidCount, addLog, dismissed, lastId,
          mcps, isLoading, error, searchQuery, selectedType, inflight, settled,
          projects, globalMcps, pIsLoading, pError, backend,
          isEnabled, logFilePath, dIsLoading, interceptorInstalled, interceptorCall, console,
          dInflight, dSettled, lastConsole,
          isOpen, wIsLoading, release, wError, lastSeen, wPending, wSettled>>

\* ------------------------------------------------------------------ bounds
MaxAdds == 3          \* add calls per behaviour
MaxTime == 5000       \* the clock stops here
MaxInFlight == 2      \* backend calls awaiting a response at one time
MaxLen == 3           \* create/duplicate are not called on a cache this long

\* -------------------------------------------------------- program constants
DefaultDuration == 5000

\* ------------------------------------------------------------ small helpers
Range(s) == {s[i] : i \in 1..Len(s)}

\* ======================================================= notification center
NotificationTypes == {"success", "error", "info", "warning"}
ExplicitTypes == {"info"}     \* the types add is called with directly
Messages == {"m1"}
Durations == {0, 2500, DefaultDuration}
ClockSteps == {2500}          \* how far one step of the modelled clock goes

\* Mutant: the identifier issued last is issued again.
reusedUUID == IF uuidCount = 0 THEN uuidCount + 1 ELSE uuidCount

\* crypto.randomUUID(): a fresh identifier on every call.
randomUUID == uuidCount + 1

\* setTimeout(() => remove(id), duration), registered only when duration > 0.
ScheduleAlways(id, duration) == timers \cup {[id |-> id, due |-> now + duration]}

Schedule(id, duration) ==
    IF duration > 0 THEN timers \cup {[id |-> id, due |-> now + duration]}
    ELSE timers

\* The list after add: the record goes at the end.
PushFront(list, n) == <<n>> \o list

Push(list, n) == Append(list, n)

\* The list after remove(id): every record with another id, in order.
OnlyThat(list, id) == SelectSeq(list, LAMBDA n : n.id = id)

Without(list, id) == SelectSeq(list, LAMBDA n : n.id # id)

\* add(type, message, duration = 5000)
add(type, message, duration) ==
    LET id == randomUUID
        n  == [id |-> id, type |-> type, message |-> message, duration |-> duration]
    IN  /\ uuidCount < MaxAdds
        /\ notifications' = Push(notifications, n)
        /\ timers' = Schedule(id, duration)
        /\ uuidCount' = uuidCount + 1
        /\ addLog' = Append(addLog, [id |-> id, at |-> now, duration |-> duration])
        /\ lastId' = id
        /\ UNCHANGED <<now, dismissed, mcpVars, debugVars, newsVars>>

\* add called with an explicit duration.
Add == \E t \in ExplicitTypes, m \in Messages, d \in Durations : add(t, m, d)

\* success(message) / error(message) / info(message) / warning(message):
\* add with the type fixed and no duration argument.
Helper == \E t \in NotificationTypes, m \in Messages : add(t, m, DefaultDuration)

\* remove(id)
remove(id) ==
    /\ notifications' = Without(notifications, id)
    /\ dismissed' = dismissed \cup (IF id \in {n.id : n \in Range(notifications)}
                                    THEN {id} ELSE {})
    /\ UNCHANGED <<timers, now, uuidCount, addLog, lastId, mcpVars, debugVars, newsVars>>

\* remove as the user calls it: any id, in the list or not.
Remove == \E id \in 1..MaxAdds : remove(id)

\* clear()
Clear ==
    /\ notifications' = <<>>
    /\ dismissed' = dismissed \cup {n.id : n \in Range(notifications)}
    /\ UNCHANGED <<timers, now, uuidCount, addLog, lastId, mcpVars, debugVars, newsVars>>

\* A scheduled callback whose time has come runs remove(id) and is gone.
TimerFire ==
    \E t \in timers :
        /\ t.due <= now
        /\ notifications' = Without(notifications, t.id)
        /\ timers' = timers \ {t}
        /\ UNCHANGED <<now, uuidCount, addLog, dismissed, lastId, mcpVars, debugVars, newsVars>>

\* Time passes; a callback that is due runs before the clock moves past it.
Advance ==
    /\ now < MaxTime
    /\ \A t \in timers : t.due > now
    /\ \E step \in ClockSteps : now' = now + step
    /\ UNCHANGED <<notifications, timers, uuidCount, addLog, dismissed, lastId, mcpVars, debugVars, newsVars>>

InitNotif ==
    /\ notifications = <<>>
    /\ timers = {}
    /\ now = 0
    /\ uuidCount = 0
    /\ addLog = <<>>
    /\ dismissed = {}
    /\ lastId = 0

NextNotif == Add \/ Helper \/ Remove \/ Clear \/ TimerFire \/ Advance

\* ================================================================== strings
\* Text is a sequence of one-character strings over a small alphabet.
Lower(c) == CASE c = "A" -> "a" [] c = "B" -> "b" [] OTHER -> c
IsUpper(c) == c \in {"A", "B"}

\* String.prototype.toLowerCase
toLowerCase(s) == [i \in 1..Len(s) |-> Lower(s[i])]

\* String.prototype.includes: needle occurs in hay as a contiguous run.
includes(hay, needle) ==
    \E k \in 0..(Len(hay) - Len(needle)) :
        \A i \in 1..Len(needle) : hay[k + i] = needle[i]

\* Lexicographic comparison of two texts by character rank: -1, 0 or 1.
Rank(c) == CASE c = "a" -> 1 [] c = "b" -> 2 [] OTHER -> 0

RECURSIVE LexCompare(_, _)
LexCompare(a, b) ==
    IF a = <<>> /\ b = <<>> THEN 0
    ELSE IF a = <<>> THEN -1
    ELSE IF b = <<>> THEN 1
    ELSE IF Rank(Head(a)) < Rank(Head(b)) THEN -1
    ELSE IF Rank(Head(a)) > Rank(Head(b)) THEN 1
    ELSE LexCompare(Tail(a), Tail(b))

\* String.prototype.localeCompare under the default collation: letters first,
\* case ignored; texts with the same letters are told apart by the first
\* position where the case differs, lower case first.
localeCompare(a, b) ==
    LET primary == LexCompare(toLowerCase(a), toLowerCase(b)) IN
    IF primary # 0 THEN primary
    ELSE IF a = b THEN 0
    ELSE LET d == CHOOSE i \in 1..Len(a) :
                      a[i] # b[i] /\ \A h \in 1..(i - 1) : a[h] = b[h]
         IN  IF IsUpper(a[d]) THEN 1 ELSE -1

\* String(e) of what a backend call rejects with: an Error object prints as
\* "<name>: <message>", a plain string as itself.
StringOf(e) == IF e.name = "" THEN e.message ELSE e.name \o ": " \o e.message

\* ====================================== console interceptor (debugLogger.ts)
\* Every console call a method makes is part of that method's action: it
\* goes to the original entry point and, through a wrapper, to the backend.
ConsoleFns == {"log", "warn", "error", "info"}
Originals == [fn \in ConsoleFns |-> "original"]
Wrappers == [fn \in ConsoleFns |-> "wrapper"]
\* The level each wrapper forwards with.
Level(fn) ==
    CASE fn = "log" -> "INFO"
      [] fn = "warn" -> "WARN"
      [] fn = "error" -> "ERROR"
      [] fn = "info" -> "INFO"

\* Console arguments: a string, an Error object, or another value, given by
\* what JSON.stringify makes of it ({} when it throws) and by its String().
StrArg(text) == [kind |-> "string", name |-> "", text |-> text, json |-> {}]
ErrorArg(name, message) == [kind |-> "error", name |-> name, text |-> message, json |-> {}]
ValueArg(json, str) == [kind |-> "value", name |-> "", text |-> str, json |-> json]
\* What a catch clause passes on as e: an Error object or a plain string.
Thrown(e) == IF e.name # "" THEN ErrorArg(e.name, e.message) ELSE StrArg(e.message)

\* What the map callback makes of one argument.
formatArg(arg) ==
    CASE arg.kind = "string" -> arg.text
      [] arg.kind = "error" -> arg.name \o ": " \o arg.text
      [] OTHER -> IF arg.json # {} THEN CHOOSE t \in arg.json : TRUE ELSE arg.text

\* args.map(...).join(' ')
RECURSIVE formatArgs(_)
formatArgs(args) ==
    IF Len(args) = 0 THEN ""
    ELSE IF Len(args) = 1 THEN formatArg(args[1])
    ELSE formatArg(args[1]) \o " " \o formatArgs(Tail(args))

\* What is handed over as args: whether it is truthy, what JSON.stringify
\* makes of it ({} when it throws: a circular structure, a BigInt), and the
\* message of the TypeError it then throws. What is
\* handed over as error: a text, "" standing for undefined as well.
NoArgs == [truthy |-> FALSE, json |-> {}, thrown |-> ""]
Serializable == [truthy |-> TRUE, json |-> {"{\"id\":1}"}, thrown |-> ""]
\* const a = {}; a.self = a
Circular ==
    [truthy |-> TRUE, json |-> {},
     thrown |-> "Converting circular structure to JSON\n    --> starting at object with constructor 'Object'\n    --- property 'self' closes the circle"]
\* { n: 1n }
WithBigInt == [truthy |-> TRUE, json |-> {}, thrown |-> "Do not know how to serialize a BigInt"]
InvokeArgs == {NoArgs, Serializable, Circular, WithBigInt}

\* JSON.stringify(args) is reached and throws
throws(args) == args.truthy /\ args.json = {}
\* args ? JSON.stringify(args) : null, where it does not throw
stringified(args) == IF args.truthy THEN args.json ELSE {}
\* error || null
orNull(text) == IF text = "" THEN {} ELSE {text}
\* Times in ms handed over, or measured with performance.now().
Elapsed == {12}

\* A backend call the debug layer has made: who made it, the backend command,
\* and the level, message and success flag it carries ("" when it carries
\* none); command, durationMs, args and error are those of a
\* write_invoke_log call, args and error being {} for null; passed is the
\* args value a wrapped call was made with; via is the method awaiting the
\* call's promise ("" when the caller is outside the store) and returned the
\* outcome that promise has settled with, {} while it is pending.
DCall(op, cmd, level, message, success) ==
    [op |-> op, cmd |-> cmd, level |-> level, message |-> message, success |-> success,
     via |-> "", command |-> "", durationMs |-> {}, args |-> {}, error |-> {},
     passed |-> NoArgs, returned |-> {}]

\* Mutant: the forward is made whether debug mode is enabled or not.
sendAlways(level, message, q) ==
    Append(q, DCall("sendToBackend", "write_frontend_log", level, message, FALSE))

\* sendToBackend(level, message), as what it leaves of the outstanding calls q.
sendToBackend(level, message, q) ==
    IF ~isEnabled THEN q
    ELSE Append(q, DCall("sendToBackend", "write_frontend_log", level, message, FALSE))

\* A call of console[fn](...args): what it invokes, in order, and the
\* outstanding calls it leaves.
Invoked(fn) ==
    IF console[fn] = "wrapper" /\ isEnabled THEN <<"original", "invoke">>
    ELSE <<"original">>

Forwarded(fn, args, q) ==
    IF console[fn] = "wrapper" THEN sendToBackend(Level(fn), formatArgs(args), q)
    ELSE q

ConsoleRecord(fn) == [fn |-> fn, bound |-> console[fn], invoked |-> Invoked(fn)]

consoleCall(fn, args) ==
    /\ lastConsole' = ConsoleRecord(fn)
    /\ dInflight' = Forwarded(fn, args, dInflight)
    /\ UNCHANGED <<relayVars, interceptorVars, dSettled, notifVars, mcpVars, newsVars>>

\* console.error(text, e) in a catch clause, q being the outstanding calls
\* as the clause is entered; in the debug store, those without the settled call i.
caughtOn(text, e, q) ==
    /\ lastConsole' = ConsoleRecord("error")
    /\ dInflight' = Forwarded("error", <<StrArg(text), Thrown(e)>>, q)

\* console.log(text) inside a method.
logged(text) ==
    /\ lastConsole' = ConsoleRecord("log")
    /\ dInflight' = Forwarded("log", <<StrArg(text)>>, dInflight)

\* `${flag}` of a boolean.
Bool(flag) == IF flag THEN "true" ELSE "false"

\* ========================================================= MCP library store
McpTypes == {"stdio", "sse", "http"}
TypeFilters == {"all"} \cup McpTypes

\* Records the backend answers with. description and tags are optional:
\* {} when absent, {value} when present.
Mcp1 == [id |-> 1, name |-> <<"B">>, description |-> {}, tags |-> {},
         type |-> "stdio", isFavorite |-> TRUE, isEnabledGlobal |-> FALSE]
Mcp2 == [id |-> 2, name |-> <<"a", "b">>, description |-> {<<"A">>}, tags |-> {},
         type |-> "http", isFavorite |-> FALSE, isEnabledGlobal |-> TRUE]
Mcp3 == [id |-> 3, name |-> <<"A", "b">>, description |-> {}, tags |-> {<<<<"a">>, <<"B", "b">>>>},
         type |-> "sse", isFavorite |-> FALSE, isEnabledGlobal |-> FALSE]
Mcp4 == [id |-> 4, name |-> <<"a">>, description |-> {<<>>}, tags |-> {<<>>},
         type |-> "stdio", isFavorite |-> FALSE, isEnabledGlobal |-> FALSE]
McpPool == {Mcp1, Mcp2, Mcp3, Mcp4}
\* undefined, as a promise's value
Void == [id |-> 0]
McpIds == {1, 2}

\* What get_all_mcps answers with.
Payloads == {<<>>, <<Mcp2, Mcp1>>, <<Mcp3, Mcp4, Mcp1, Mcp2>>}

\* What a backend call rejects with.
NoError == [name |-> "", message |-> ""]
BackendErrors == {[name |-> "Error", message |-> "Network error"],
                  [name |-> "", message |-> "denied"]}

\* CreateMcpRequest and CreateProjectRequest values, by the fields the stores
\* read; the rest is only passed on.
Requests == {[name |-> "new"]}
ProjectRequests == {[name |-> "p3", path |-> "/p3"]}
Queries == {<<>>, <<"A">>, <<"b", "b">>}

\* caller: the method that awaits this call's method, "" when called directly;
\* response: {} until the backend has handled the call, then {its response};
\* returned: {} until the method has returned to the method that awaits it,
\* then {what its promise settled as}.
Call(op, id, enabled, req) ==
    [op |-> op, id |-> id, enabled |-> enabled, req |-> req, caller |-> "",
     response |-> {}, returned |-> {}]
RemoveAt(s, i) == SubSeq(s, 1, i - 1) \o SubSeq(s, i + 1, Len(s))
\* The record of a settled call. status/value/reason: the promise the caller
\* holds; answer: the error the backend answered with (NoError: it succeeded);
\* payload: the list a load was answered with; same: that list was what the
\* cache already held; mark: the id field of a settled load call.
Fulfilled(op, value) ==
    [op |-> op, status |-> "fulfilled", value |-> value, reason |-> NoError,
     answer |-> NoError, payload |-> <<>>, same |-> FALSE, mark |-> 0]
Rejected(op, e) ==
    [op |-> op, status |-> "rejected", value |-> Void, reason |-> e,
     answer |-> e, payload |-> <<>>, same |-> FALSE, mark |-> 0]

\* ---- derived views
matchesCaseSensitive(m, query) ==
    \/ includes(m.name, query)
    \/ \E d \in m.description : includes(d, query)
    \/ \E ts \in m.tags : \E i \in 1..Len(ts) : includes(ts[i], query)

matchesQuery(m, query) ==
    \/ includes(toLowerCase(m.name), query)
    \/ \E d \in m.description : includes(toLowerCase(d), query)
    \/ \E ts \in m.tags : \E i \in 1..Len(ts) : includes(toLowerCase(ts[i]), query)

\* The comparator handed to sort.
compareMcps(a, b) ==
    IF a.isFavorite # b.isFavorite THEN (IF a.isFavorite THEN -1 ELSE 1)
    ELSE localeCompare(a.name, b.name)

\* Array.prototype.sort is stable: x goes after everything that does not sort
\* after it.
RECURSIVE InsertSorted(_, _)
InsertSorted(sorted, x) ==
    IF sorted = <<>> THEN <<x>>
    ELSE IF compareMcps(Head(sorted), x) <= 0
         THEN <<Head(sorted)>> \o InsertSorted(Tail(sorted), x)
         ELSE <<x>> \o sorted

RECURSIVE sortMcps(_)
sortMcps(s) ==
    IF s = <<>> THEN <<>>
    ELSE InsertSorted(sortMcps(SubSeq(s, 1, Len(s) - 1)), s[Len(s)])

filteredMcps ==
    LET query == toLowerCase(searchQuery)
        bySearch == IF searchQuery # <<>>
                    THEN SelectSeq(mcps, LAMBDA m : matchesQuery(m, query))
                    ELSE mcps
        byType == IF selectedType # "all"
                  THEN SelectSeq(bySearch, LAMBDA m : m.type = selectedType)
                  ELSE bySearch
    IN  sortMcps(byType)

CountOf(list) ==
    [total |-> Len(list),
     stdio |-> Len(SelectSeq(list, LAMBDA m : m.type = "stdio")),
     sse   |-> Len(SelectSeq(list, LAMBDA m : m.type = "sse")),
     http  |-> Len(SelectSeq(list, LAMBDA m : m.type = "http"))]

countOfFiltered == CountOf(filteredMcps)

mcpCount == CountOf(mcps)

\* ---- load()
\* A load call's id field records how it fared against overlapping loads of
\* its store: 0 not followed, Followed from its start, Raced once a load
\* started before it has settled while it was pending, Overtaken once a load
\* started after it has settled before it.
Followed == 1
Overtaken == 2
Raced == 3

load_keepsError(mark) ==
    /\ isLoading' = TRUE
    /\ inflight' = Append(inflight, Call("load", mark, FALSE, ""))
    /\ logged("[mcpLibrary] Loading MCPs...")
    /\ UNCHANGED <<mcps, error, searchQuery, selectedType, settled, notifVars, projVars, relayVars, interceptorVars, dSettled, newsVars, backend>>

load_begin(mark) ==
    /\ isLoading' = TRUE
    /\ error' = {}
    /\ inflight' = Append(inflight, Call("load", mark, FALSE, ""))
    /\ logged("[mcpLibrary] Loading MCPs...")
    /\ UNCHANGED <<mcps, searchQuery, selectedType, settled, notifVars, projVars, relayVars, interceptorVars, dSettled, newsVars, backend>>

load_call == load_begin(0)

\* The calls left in flight when call i settles.
Rest(i) ==
    RemoveAt([k \in 1..Len(inflight) |->
                 IF inflight[k].op = inflight[i].op /\ inflight[k].caller = ""
                    /\ inflight[k].id \in {Followed, Raced} /\ k < i
                 THEN [inflight[k] EXCEPT !.id = Overtaken]
                 ELSE IF inflight[k].op = inflight[i].op /\ inflight[k].caller = ""
                         /\ inflight[k].id = Followed /\ k > i
                 THEN [inflight[k] EXCEPT !.id = Raced]
                 ELSE inflight[k]], i)

load_staysLoading(i, payload) ==
    /\ inflight[i].op = "load"
    /\ mcps' = payload
    /\ settled' = [Fulfilled("load", Void) EXCEPT !.payload = payload, !.same = (mcps = payload)]
    /\ inflight' = RemoveAt(inflight, i)
    /\ logged("[mcpLibrary] Loaded " \o ToString(Len(mcps')) \o " MCPs")
    /\ UNCHANGED <<isLoading, error, searchQuery, selectedType, notifVars, projVars, relayVars, interceptorVars, dSettled, newsVars, backend>>

load_appends(i, payload) ==
    /\ inflight[i].op = "load"
    /\ mcps' = mcps \o payload
    /\ isLoading' = FALSE
    /\ settled' = [Fulfilled("load", Void) EXCEPT !.payload = payload, !.same = (mcps = payload)]
    /\ inflight' = RemoveAt(inflight, i)
    /\ logged("[mcpLibrary] Loaded " \o ToString(Len(mcps')) \o " MCPs")
    /\ UNCHANGED <<error, searchQuery, selectedType, notifVars, projVars, relayVars, interceptorVars, dSettled, newsVars, backend>>

\* get_all_mcps resolved with payload: the try block ends, then finally.
load_resolved(i, payload) ==
    /\ inflight[i].op = "load"
    /\ mcps' = payload
    /\ isLoading' = FALSE
    /\ settled' = [Fulfilled("load", Void) EXCEPT !.payload = payload, !.same = (mcps = payload),
                                                  !.mark = inflight[i].id]
    /\ inflight' = Rest(i)
    /\ logged("[mcpLibrary] Loaded " \o ToString(Len(mcps')) \o " MCPs")
    /\ UNCHANGED <<error, searchQuery, selectedType, notifVars, projVars, relayVars, interceptorVars, dSettled, newsVars, backend>>

load_rethrows(i, e) ==
    /\ inflight[i].op = "load"
    /\ error' = {StringOf(e)}
    /\ isLoading' = FALSE
    /\ settled' = Rejected("load", e)
    /\ inflight' = RemoveAt(inflight, i)
    /\ caughtOn("[mcpLibrary] Failed to load MCPs:", e, dInflight)
    /\ UNCHANGED <<mcps, searchQuery, selectedType, notifVars, projVars, relayVars, interceptorVars, dSettled, newsVars, backend>>

load_clears(i, e) ==
    /\ inflight[i].op = "load"
    /\ error' = {StringOf(e)}
    /\ isLoading' = FALSE
    /\ mcps' = <<>>
    /\ settled' = [Fulfilled("load", Void) EXCEPT !.answer = e, !.mark = inflight[i].id]
    /\ inflight' = Rest(i)
    /\ caughtOn("[mcpLibrary] Failed to load MCPs:", e, dInflight)
    /\ UNCHANGED <<searchQuery, selectedType, notifVars, projVars, relayVars, interceptorVars, dSettled, newsVars, backend>>

\* get_all_mcps rejected with e: the catch block, then finally.
load_rejected(i, e) ==
    /\ inflight[i].op = "load"
    /\ error' = {StringOf(e)}
    /\ isLoading' = FALSE
    /\ settled' = [Fulfilled("load", Void) EXCEPT !.answer = e, !.mark = inflight[i].id]
    /\ inflight' = Rest(i)
    /\ caughtOn("[mcpLibrary] Failed to load MCPs:", e, dInflight)
    /\ UNCHANGED <<mcps, searchQuery, selectedType, notifVars, projVars, relayVars, interceptorVars, dSettled, newsVars, backend>>

\* What each mutation logs before its backend call.
Announced(op, id, enabled, req) ==
    CASE op = "create" -> "[mcpLibrary] Creating MCP: " \o req.name
      [] op = "update" -> "[mcpLibrary] Updating MCP id=" \o ToString(id) \o ": " \o req.name
      [] op = "delete" -> "[mcpLibrary] Deleting MCP id=" \o ToString(id)
      [] op = "duplicate" -> "[mcpLibrary] Duplicating MCP id=" \o ToString(id)
      [] op = "toggleGlobal" -> "[mcpLibrary] Toggling global MCP id=" \o ToString(id)
                                    \o " enabled=" \o Bool(enabled)

\* ---- the mutations: before the await, the log line and the call itself
mutation_call(op, id, enabled, req) ==
    /\ inflight' = Append(inflight, Call(op, id, enabled, req))
    /\ logged(Announced(op, id, enabled, req))
    /\ UNCHANGED <<mcps, isLoading, error, searchQuery, selectedType, settled, notifVars, projVars, relayVars, interceptorVars, dSettled, newsVars, backend>>

mutation_swallowed(i, e) ==
    /\ inflight[i].op \in {"create", "update", "delete", "duplicate", "toggleGlobal"}
    /\ settled' = [Fulfilled(inflight[i].op, Void) EXCEPT !.answer = e]
    /\ inflight' = RemoveAt(inflight, i)
    /\ UNCHANGED <<mcps, isLoading, error, searchQuery, selectedType, notifVars, projVars, debugVars, newsVars, backend>>

\* An awaited backend call rejected with e and nothing catches it.
mutation_rejected(i, e) ==
    /\ inflight[i].op \in {"create", "update", "delete", "duplicate", "toggleGlobal"}
    /\ settled' = Rejected(inflight[i].op, e)
    /\ inflight' = RemoveAt(inflight, i)
    /\ UNCHANGED <<mcps, isLoading, error, searchQuery, selectedType, notifVars, projVars, debugVars, newsVars, backend>>

PendingAppends == Len(SelectSeq(inflight, LAMBDA c : c.op \in {"create", "duplicate"}))

create_call(req) ==
    /\ Len(mcps) + PendingAppends < MaxLen
    /\ mutation_call("create", 0, FALSE, req)

create_prepends(i, mcp) ==
    /\ inflight[i].op = "create"
    /\ mcps' = <<mcp>> \o mcps
    /\ settled' = Fulfilled("create", mcp)
    /\ inflight' = RemoveAt(inflight, i)
    /\ logged("[mcpLibrary] Created MCP id=" \o ToString(mcp.id))
    /\ UNCHANGED <<isLoading, error, searchQuery, selectedType, notifVars, projVars, relayVars, interceptorVars, dSettled, newsVars, backend>>

\* create_mcp resolved with mcp: the record is appended and returned.
create_resolved(i, mcp) ==
    /\ inflight[i].op = "create"
    /\ mcps' = Append(mcps, mcp)
    /\ settled' = Fulfilled("create", mcp)
    /\ inflight' = RemoveAt(inflight, i)
    /\ logged("[mcpLibrary] Created MCP id=" \o ToString(mcp.id))
    /\ UNCHANGED <<isLoading, error, searchQuery, selectedType, notifVars, projVars, relayVars, interceptorVars, dSettled, newsVars, backend>>

update_call(id, req) == mutation_call("update", id, FALSE, req)

update_appends(i, mcp) ==
    /\ inflight[i].op = "update"
    /\ mcps' = Append(mcps, mcp)
    /\ settled' = Fulfilled("update", mcp)
    /\ inflight' = RemoveAt(inflight, i)
    /\ logged("[mcpLibrary] Updated MCP id=" \o ToString(inflight[i].id))
    /\ UNCHANGED <<isLoading, error, searchQuery, selectedType, notifVars, projVars, relayVars, interceptorVars, dSettled, newsVars, backend>>

update_resolved(i, mcp) ==
    /\ inflight[i].op = "update"
    /\ mcps' = [k \in 1..Len(mcps) |-> IF mcps[k].id = inflight[i].id THEN mcp ELSE mcps[k]]
    /\ settled' = Fulfilled("update", mcp)
    /\ inflight' = RemoveAt(inflight, i)
    /\ logged("[mcpLibrary] Updated MCP id=" \o ToString(inflight[i].id))
    /\ UNCHANGED <<isLoading, error, searchQuery, selectedType, notifVars, projVars, relayVars, interceptorVars, dSettled, newsVars, backend>>

delete_call(id) == mutation_call("delete", id, FALSE, "")

delete_resolved(i) ==
    /\ inflight[i].op = "delete"
    /\ mcps' = SelectSeq(mcps, LAMBDA m : m.id # inflight[i].id)
    /\ settled' = Fulfilled("delete", Void)
    /\ inflight' = RemoveAt(inflight, i)
    /\ logged("[mcpLibrary] Deleted MCP id=" \o ToString(inflight[i].id))
    /\ UNCHANGED <<isLoading, error, searchQuery, selectedType, notifVars, projVars, relayVars, interceptorVars, dSettled, newsVars, backend>>

duplicate_call(id) ==
    /\ Len(mcps) + PendingAppends < MaxLen
    /\ mutation_call("duplicate", id, FALSE, "")

duplicate_resolved(i, mcp) ==
    /\ inflight[i].op = "duplicate"
    /\ mcps' = Append(mcps, mcp)
    /\ settled' = Fulfilled("duplicate", mcp)
    /\ inflight' = RemoveAt(inflight, i)
    /\ logged("[mcpLibrary] Duplicated MCP id=" \o ToString(inflight[i].id) \o " -> id=" \o ToString(mcp.id))
    /\ UNCHANGED <<isLoading, error, searchQuery, selectedType, notifVars, projVars, relayVars, interceptorVars, dSettled, newsVars, backend>>

toggleGlobal_call(id, enabled) == mutation_call("toggleGlobal", id, enabled, "")

\* mcps.map((m) => (m.id === id ? { ...m, isEnabledGlobal: enabled } : m))
toggledAll(list, id, enabled) ==
    [k \in 1..Len(list) |-> [list[k] EXCEPT !.isEnabledGlobal = enabled]]

toggled(list, id, enabled) ==
    [k \in 1..Len(list) |->
        IF list[k].id = id THEN [list[k] EXCEPT !.isEnabledGlobal = enabled] ELSE list[k]]

toggleGlobal_resolved(i) ==
    /\ inflight[i].op = "toggleGlobal"
    /\ mcps' = toggled(mcps, inflight[i].id, inflight[i].enabled)
    /\ settled' = Fulfilled("toggleGlobal", Void)
    /\ inflight' = RemoveAt(inflight, i)
    /\ UNCHANGED <<isLoading, error, searchQuery, selectedType, notifVars, projVars, debugVars, newsVars, backend>>

\* ---- synchronous methods
updateMcp(mcp) ==
    /\ mcps' = [k \in 1..Len(mcps) |-> IF mcps[k].id = mcp.id THEN mcp ELSE mcps[k]]
    /\ UNCHANGED <<isLoading, error, searchQuery, selectedType, inflight, settled, notifVars, projVars, debugVars, newsVars, backend>>

setSearch(query) ==
    /\ searchQuery' = query
    /\ UNCHANGED <<mcps, isLoading, error, selectedType, inflight, settled, notifVars, projVars, debugVars, newsVars, backend>>

setTypeFilter(type) ==
    /\ selectedType' = type
    /\ UNCHANGED <<mcps, isLoading, error, searchQuery, inflight, settled, notifVars, projVars, debugVars, newsVars, backend>>

\* ---- the store as its callers and the backend drive it
\* Callers start a method, with an id among ids, while fewer than cap backend
\* calls are outstanding.
McpCall(cap, ids) ==
    /\ Len(inflight) < cap
    /\ \/ load_call
       \/ \E req \in Requests : create_call(req)
       \/ \E id \in ids, req \in Requests : update_call(id, req)
       \/ \E id \in ids : delete_call(id)
       \/ \E id \in ids : duplicate_call(id)
       \/ \E id \in ids, enabled \in BOOLEAN : toggleGlobal_call(id, enabled)

\* The backend answers any outstanding call, in any order, with success or
\* failure; payloads and pool are what it may answer with.
McpSettle(payloads, pool) ==
    \E i \in 1..Len(inflight) :
        \/ \E payload \in payloads : load_resolved(i, payload)
        \/ \E e \in BackendErrors : load_rejected(i, e)
        \/ \E mcp \in pool : create_resolved(i, mcp)
        \/ \E mcp \in pool : update_resolved(i, mcp)
        \/ delete_resolved(i)
        \/ \E mcp \in pool : duplicate_resolved(i, mcp)
        \/ toggleGlobal_resolved(i)
        \/ \E e \in BackendErrors : mutation_rejected(i, e)

McpSync(pool, queries, filters) ==
    \/ \E mcp \in pool : updateMcp(mcp)
    \/ \E q \in queries : setSearch(q)
    \/ \E t \in filters : setTypeFilter(t)

\* ============================================================ projects store
Proj1 == [id |-> 1, name |-> "p1"]
Proj2 == [id |-> 2, name |-> "p2"]
ProjectIds == {1, 2}
ProjectPayloads == {<<>>, <<Proj1, Proj2>>}

\* The calls in flight once the load at position i has returned as outcome:
\* called directly it is gone; awaited by a cross-entity method, that method
\* is still to resume, in a later turn.
Returned(i, outcome) ==
    IF inflight[i].caller = "" THEN Rest(i)
    ELSE [inflight EXCEPT ![i].returned = {outcome}]

\* ---- loadProjects()
loadProjects_begin(mark) ==
    /\ pIsLoading' = TRUE
    /\ pError' = {}
    /\ inflight' = Append(inflight, Call("loadProjects", mark, FALSE, ""))
    /\ logged("[projectsStore] Loading projects...")
    /\ UNCHANGED <<projects, globalMcps, settled, libVars, notifVars, relayVars, interceptorVars, dSettled, newsVars, backend>>

loadProjects_call == loadProjects_begin(0)

loadProjects_resolved(i, payload) ==
    /\ inflight[i].op = "loadProjects" /\ inflight[i].returned = {}
    /\ projects' = payload
    /\ pIsLoading' = FALSE
    /\ settled' = [Fulfilled("loadProjects", Void) EXCEPT !.payload = payload,
                                                          !.mark = inflight[i].id]
    /\ inflight' = Returned(i, settled')
    /\ logged("[projectsStore] Loaded " \o ToString(Len(projects')) \o " projects")
    /\ UNCHANGED <<globalMcps, pError, libVars, notifVars, relayVars, interceptorVars, dSettled, newsVars, backend>>

loadProjects_rejected(i, e) ==
    /\ inflight[i].op = "loadProjects" /\ inflight[i].returned = {}
    /\ pError' = {StringOf(e)}
    /\ pIsLoading' = FALSE
    /\ settled' = [Fulfilled("loadProjects", Void) EXCEPT !.answer = e,
                                                          !.mark = inflight[i].id]
    /\ inflight' = Returned(i, settled')
    /\ caughtOn("[projectsStore] Failed to load projects:", e, dInflight)
    /\ UNCHANGED <<projects, globalMcps, libVars, notifVars, relayVars, interceptorVars, dSettled, newsVars, backend>>

\* ---- loadGlobalMcps(): no loading flag, failures only logged
Global1 == [id |-> 1, mcpId |-> 1, isEnabled |-> TRUE]
Global2 == [id |-> 2, mcpId |-> 2, isEnabled |-> FALSE]
GlobalPayloads == {<<>>, <<Global1, Global2>>}

loadGlobalMcps_call ==
    /\ inflight' = Append(inflight, Call("loadGlobalMcps", 0, FALSE, ""))
    /\ logged("[projectsStore] Loading global MCPs...")
    /\ UNCHANGED <<settled, projVars, libVars, notifVars, relayVars, interceptorVars, dSettled, newsVars, backend>>

loadGlobalMcps_resolved(i, payload) ==
    /\ inflight[i].op = "loadGlobalMcps" /\ inflight[i].returned = {}
    /\ globalMcps' = payload
    /\ settled' = [Fulfilled("loadGlobalMcps", Void) EXCEPT !.payload = payload]
    /\ inflight' = Returned(i, settled')
    /\ logged("[projectsStore] Loaded " \o ToString(Len(globalMcps')) \o " global MCPs")
    /\ UNCHANGED <<projects, pIsLoading, pError, libVars, notifVars, relayVars, interceptorVars, dSettled, newsVars, backend>>

\* Mutant: the catch clause throws e on.
loadGlobalMcps_rethrows(i, e) ==
    /\ inflight[i].op = "loadGlobalMcps" /\ inflight[i].returned = {}
    /\ settled' = Rejected("loadGlobalMcps", e)
    /\ inflight' = Returned(i, settled')
    /\ caughtOn("[projectsStore] Failed to load global MCPs:", e, dInflight)
    /\ UNCHANGED <<projVars, libVars, notifVars, relayVars, interceptorVars, dSettled, newsVars, backend>>

\* get_global_mcps rejected with e: the catch clause only logs.
loadGlobalMcps_rejected(i, e) ==
    /\ inflight[i].op = "loadGlobalMcps" /\ inflight[i].returned = {}
    /\ settled' = [Fulfilled("loadGlobalMcps", Void) EXCEPT !.answer = e]
    /\ inflight' = Returned(i, settled')
    /\ caughtOn("[projectsStore] Failed to load global MCPs:", e, dInflight)
    /\ UNCHANGED <<projVars, libVars, notifVars, relayVars, interceptorVars, dSettled, newsVars, backend>>

\* ---- addProject(request) / removeProject(id)
PendingAdds == Len(SelectSeq(inflight, LAMBDA c : c.op = "addProject"))

addProject_call(req) ==
    /\ Len(projects) + PendingAdds < MaxLen
    /\ inflight' = Append(inflight, Call("addProject", 0, FALSE, req))
    /\ logged("[projectsStore] Adding project: " \o req.name \o " at " \o req.path)
    /\ UNCHANGED <<settled, projVars, libVars, notifVars, relayVars, interceptorVars, dSettled, newsVars, backend>>

addProject_resolved(i, project) ==
    /\ inflight[i].op = "addProject"
    /\ projects' = Append(projects, project)
    /\ settled' = Fulfilled("addProject", project)
    /\ inflight' = RemoveAt(inflight, i)
    /\ logged("[projectsStore] Added project id=" \o ToString(project.id))
    /\ UNCHANGED <<globalMcps, pIsLoading, pError, libVars, notifVars, relayVars, interceptorVars, dSettled, newsVars, backend>>

removeProject_call(id) ==
    /\ inflight' = Append(inflight, Call("removeProject", id, FALSE, ""))
    /\ logged("[projectsStore] Removing project id=" \o ToString(id))
    /\ UNCHANGED <<settled, projVars, libVars, notifVars, relayVars, interceptorVars, dSettled, newsVars, backend>>

removeProject_resolved(i) ==
    /\ inflight[i].op = "removeProject"
    /\ projects' = SelectSeq(projects, LAMBDA q : q.id # inflight[i].id)
    /\ settled' = Fulfilled("removeProject", Void)
    /\ inflight' = RemoveAt(inflight, i)
    /\ logged("[projectsStore] Removed project id=" \o ToString(inflight[i].id))
    /\ UNCHANGED <<globalMcps, pIsLoading, pError, libVars, notifVars, relayVars, interceptorVars, dSettled, newsVars, backend>>

\* ---- syncProjectConfig(projectId) / syncGlobalConfig() / browseForProject()
syncProjectConfig_call(projectId) ==
    /\ inflight' = Append(inflight, Call("syncProjectConfig", projectId, FALSE, ""))
    /\ logged("[projectsStore] Syncing config for project id=" \o ToString(projectId))
    /\ UNCHANGED <<settled, projVars, libVars, notifVars, relayVars, interceptorVars, dSettled, newsVars, backend>>

syncProjectConfig_resolved(i) ==
    /\ inflight[i].op = "syncProjectConfig"
    /\ settled' = Fulfilled("syncProjectConfig", Void)
    /\ inflight' = RemoveAt(inflight, i)
    /\ logged("[projectsStore] Synced config for project id=" \o ToString(inflight[i].id))
    /\ UNCHANGED <<projVars, libVars, notifVars, relayVars, interceptorVars, dSettled, newsVars, backend>>

syncGlobalConfig_call ==
    /\ inflight' = Append(inflight, Call("syncGlobalConfig", 0, FALSE, ""))
    /\ logged("[projectsStore] Syncing global config...")
    /\ UNCHANGED <<settled, projVars, libVars, notifVars, relayVars, interceptorVars, dSettled, newsVars, backend>>

syncGlobalConfig_resolved(i) ==
    /\ inflight[i].op = "syncGlobalConfig"
    /\ settled' = Fulfilled("syncGlobalConfig", Void)
    /\ inflight' = RemoveAt(inflight, i)
    /\ logged("[projectsStore] Synced global config")
    /\ UNCHANGED <<projVars, libVars, notifVars, relayVars, interceptorVars, dSettled, newsVars, backend>>

\* What browse_for_project answers with: the folder picked, or null ({}).
Folder(path) == [path |-> path]
Folders == {Folder({}), Folder({"/p3"})}

browseForProject_call ==
    /\ inflight' = Append(inflight, Call("browseForProject", 0, FALSE, ""))
    /\ logged("[projectsStore] Opening folder browser...")
    /\ UNCHANGED <<settled, projVars, libVars, notifVars, relayVars, interceptorVars, dSettled, newsVars, backend>>

browseForProject_resolved(i, folder) ==
    /\ inflight[i].op = "browseForProject"
    /\ settled' = Fulfilled("browseForProject", folder)
    /\ inflight' = RemoveAt(inflight, i)
    /\ UNCHANGED <<projVars, libVars, notifVars, debugVars, newsVars, backend>>

\* An awaited backend call of addProject, removeProject, syncProjectConfig,
\* syncGlobalConfig or browseForProject rejected with e.
projectMutation_rejected(i, e) ==
    /\ inflight[i].op \in {"addProject", "removeProject", "syncProjectConfig",
                          "syncGlobalConfig", "browseForProject"}
    /\ settled' = Rejected(inflight[i].op, e)
    /\ inflight' = RemoveAt(inflight, i)
    /\ UNCHANGED <<projVars, libVars, notifVars, debugVars, newsVars, backend>>

\* ---- the cross-entity operations: a backend command, then a full reload
ProjectOps == {"assignMcpToProject", "removeMcpFromProject", "toggleProjectMcp"}
GlobalOps == {"addGlobalMcp", "removeGlobalMcp", "toggleGlobalMcp"}
CrossOps == ProjectOps \cup GlobalOps

\* What each cross-entity operation logs before its backend command.
CrossAnnounced(op, id, enabled, mcpId) ==
    CASE op = "assignMcpToProject" ->
            "[projectsStore] Assigning MCP id=" \o ToString(mcpId) \o " to project id=" \o ToString(id)
      [] op = "removeMcpFromProject" ->
            "[projectsStore] Removing MCP id=" \o ToString(mcpId) \o " from project id=" \o ToString(id)
      [] op = "toggleProjectMcp" ->
            "[projectsStore] Toggling project MCP assignment id=" \o ToString(id)
                \o " enabled=" \o Bool(enabled)
      [] op = "addGlobalMcp" -> "[projectsStore] Adding global MCP id=" \o ToString(mcpId)
      [] op = "removeGlobalMcp" -> "[projectsStore] Removing global MCP id=" \o ToString(mcpId)
      [] op = "toggleGlobalMcp" ->
            "[projectsStore] Toggling global MCP id=" \o ToString(id) \o " enabled=" \o Bool(enabled)

\* op(id, mcpId) or op(id, enabled), to its first await
crossEntity_call(op, id, enabled, mcpId) ==
    /\ inflight' = Append(inflight, Call(op, id, enabled, mcpId))
    /\ logged(CrossAnnounced(op, id, enabled, mcpId))
    /\ UNCHANGED <<settled, projVars, libVars, notifVars, relayVars, interceptorVars, dSettled, newsVars, backend>>

\* The backend command succeeded: await this.loadProjects().
projectOp_resolved(i) ==
    /\ inflight[i].op \in ProjectOps
    /\ pIsLoading' = TRUE
    /\ pError' = {}
    /\ inflight' = Append(RemoveAt(inflight, i),
                          [Call("loadProjects", 0, FALSE, "") EXCEPT !.caller = inflight[i].op])
    /\ logged("[projectsStore] Loading projects...")
    /\ UNCHANGED <<projects, globalMcps, settled, libVars, notifVars, relayVars, interceptorVars, dSettled, newsVars, backend>>

\* The backend command succeeded: await this.loadGlobalMcps().
globalOp_resolved(i) ==
    /\ inflight[i].op \in GlobalOps
    /\ inflight' = Append(RemoveAt(inflight, i),
                          [Call("loadGlobalMcps", 0, FALSE, "") EXCEPT !.caller = inflight[i].op])
    /\ logged("[projectsStore] Loading global MCPs...")
    /\ UNCHANGED <<settled, projVars, libVars, notifVars, relayVars, interceptorVars, dSettled, newsVars, backend>>

\* The method at position i resumes after its `await this.loadProjects()` or
\* `await this.loadGlobalMcps()` and returns: it settles as the load did.
\* answer: what the backend answered the reload with.
reload_awaited(i) ==
    /\ inflight[i].caller # "" /\ inflight[i].returned # {}
    /\ \E r \in inflight[i].returned :
            settled' = IF r.status = "fulfilled"
                       THEN [Fulfilled(inflight[i].caller, Void) EXCEPT !.answer = r.answer]
                       ELSE Rejected(inflight[i].caller, r.reason)
    /\ inflight' = RemoveAt(inflight, i)
    /\ UNCHANGED <<projVars, libVars, notifVars, debugVars, newsVars, backend>>

\* Mutant: the collection is reloaded although the command failed.
crossEntity_reloadsAnyway(i, e) ==
    /\ inflight[i].op \in CrossOps
    /\ settled' = Rejected(inflight[i].op, e)
    /\ inflight' = Append(RemoveAt(inflight, i),
                          [Call("loadGlobalMcps", 0, FALSE, "") EXCEPT !.caller = inflight[i].op])
    /\ logged("[projectsStore] Loading global MCPs...")
    /\ UNCHANGED <<projVars, libVars, notifVars, relayVars, interceptorVars, dSettled, newsVars, backend>>

\* The backend command rejected with e: it reaches the caller, nothing is reloaded.
crossEntity_rejected(i, e) ==
    /\ inflight[i].op \in CrossOps
    /\ settled' = Rejected(inflight[i].op, e)
    /\ inflight' = RemoveAt(inflight, i)
    /\ UNCHANGED <<projVars, libVars, notifVars, debugVars, newsVars, backend>>

CrossCall(cap, ids, flags) ==
    /\ Len(inflight) < cap
    /\ \/ \E op \in {"assignMcpToProject", "removeMcpFromProject"}, id \in ids, mcpId \in ids :
            crossEntity_call(op, id, FALSE, mcpId)
       \/ \E op \in {"toggleProjectMcp", "toggleGlobalMcp"}, id \in ids, enabled \in flags :
            crossEntity_call(op, id, enabled, 0)
       \/ \E op \in {"addGlobalMcp", "removeGlobalMcp"}, mcpId \in ids :
            crossEntity_call(op, 0, FALSE, mcpId)

CrossSettle(projectPayloads, globalPayloads, errors) ==
    \E i \in 1..Len(inflight) :
        \/ \E payload \in projectPayloads : loadProjects_resolved(i, payload)
        \/ \E e \in errors : loadProjects_rejected(i, e)
        \/ \E payload \in globalPayloads : loadGlobalMcps_resolved(i, payload)
        \/ \E e \in errors : loadGlobalMcps_rejected(i, e)
        \/ projectOp_resolved(i)
        \/ globalOp_resolved(i)
        \/ reload_awaited(i)
        \/ \E e \in errors : crossEntity_rejected(i, e)

ProjCall(cap) ==
    /\ Len(inflight) < cap
    /\ \/ loadProjects_call
       \/ loadGlobalMcps_call
       \/ \E req \in ProjectRequests : addProject_call(req)
       \/ \E id \in ProjectIds : removeProject_call(id)
       \/ \E id \in ProjectIds : syncProjectConfig_call(id)
       \/ syncGlobalConfig_call
       \/ browseForProject_call

ProjSettle(payloads, pool) ==
    \E i \in 1..Len(inflight) :
        \/ \E payload \in payloads : loadProjects_resolved(i, payload)
        \/ \E e \in BackendErrors : loadProjects_rejected(i, e)
        \/ \E payload \in GlobalPayloads : loadGlobalMcps_resolved(i, payload)
        \/ \E e \in BackendErrors : loadGlobalMcps_rejected(i, e)
        \/ \E project \in pool : addProject_resolved(i, project)
        \/ removeProject_resolved(i)
        \/ syncProjectConfig_resolved(i)
        \/ syncGlobalConfig_resolved(i)
        \/ \E folder \in Folders : browseForProject_resolved(i, folder)
        \/ \E e \in BackendErrors : projectMutation_rejected(i, e)

InitProj ==
    /\ projects = <<>>
    /\ globalMcps = <<>>
    /\ pIsLoading = FALSE
    /\ pError = {}

InitMcp ==
    /\ mcps = <<>>
    /\ isLoading = FALSE
    /\ error = {}
    /\ searchQuery = <<>>
    /\ selectedType = "all"
    /\ inflight = <<>>
    /\ settled = [Fulfilled("none", Void) EXCEPT !.status = "none"]
    /\ backend = [mcps |-> <<>>, nextId |-> 1, raced |-> FALSE]

\* ================================ console interceptor: install / uninstall
\* interceptorCall records the call and whether it got past its early return.
installDebugInterceptor ==
    /\ interceptorCall' = [call |-> "install", effective |-> ~interceptorInstalled]
    /\ IF interceptorInstalled
       THEN UNCHANGED <<console, interceptorInstalled>>
       ELSE /\ console' = Wrappers
            /\ interceptorInstalled' = TRUE
    /\ UNCHANGED <<relayVars, dInflight, dSettled, lastConsole, notifVars, mcpVars, newsVars>>

\* Mutant: info is left bound to its wrapper.
RestoreButInfo == [Originals EXCEPT !["info"] = "wrapper"]

Restored == Originals

uninstallDebugInterceptor ==
    /\ interceptorCall' = [call |-> "uninstall", effective |-> interceptorInstalled]
    /\ IF ~interceptorInstalled
       THEN UNCHANGED <<console, interceptorInstalled>>
       ELSE /\ console' = Restored
            /\ interceptorInstalled' = FALSE
    /\ UNCHANGED <<relayVars, dInflight, dSettled, lastConsole, notifVars, mcpVars, newsVars>>

isInterceptorInstalled == interceptorInstalled

\* ============================================ debug log relay (DebugState)
LogPaths == {"/logs/a.log", "/logs/b.log"}
LogMessages == {"m"}
NoValue == ""        \* undefined, as the value of a promise of the debug layer
Results == {"r1", "r2"}

\* The record of a settled call of the debug layer. status/value/reason: the
\* promise the caller holds; answer: the error the backend answered with
\* (NoError: it succeeded); issued: the call reached the backend at all.
DFulfilled(op, value) ==
    [op |-> op, status |-> "fulfilled", value |-> value, reason |-> NoError,
     answer |-> NoError, result |-> NoValue, issued |-> TRUE, via |-> ""]
DRejected(op, e) ==
    [op |-> op, status |-> "rejected", value |-> NoValue, reason |-> e,
     answer |-> e, result |-> NoValue, issued |-> TRUE, via |-> ""]

\* A fire-and-forget call settled, answered with e (NoError: it succeeded):
\* nobody holds its promise and its .catch does nothing.
forward_settled(i, e) ==
    /\ dInflight[i].op \in {"sendToBackend", "debugInvokeLog"}
    /\ dInflight' = RemoveAt(dInflight, i)
    /\ dSettled' = [DFulfilled(dInflight[i].op, NoValue) EXCEPT !.status = "none", !.answer = e]
    /\ UNCHANGED <<relayVars, interceptorVars, lastConsole, notifVars, mcpVars, newsVars>>

caught(text, e, i) == caughtOn(text, e, RemoveAt(dInflight, i))

\* enable() or disable() at position i returns with outcome: called from
\* outside, the call is over; called by toggle(), toggle() waits for a later
\* turn to resume after its await.
DReturned(i, outcome) ==
    IF dInflight[i].via = "" THEN RemoveAt(dInflight, i)
    ELSE [dInflight EXCEPT ![i].returned = {outcome}]

\* ---- load()
debug_load_call ==
    /\ dInflight' = Append(dInflight, DCall("load", "is_debug_mode_enabled", "", "", FALSE))
    /\ UNCHANGED <<relayVars, interceptorVars, dSettled, lastConsole, notifVars, mcpVars, newsVars>>

\* is_debug_mode_enabled answered: when enabled, load goes on to ask for the path.
debug_load_resolved(i, enabled) ==
    /\ dInflight[i].op = "load"
    /\ isEnabled' = enabled
    /\ IF enabled
       THEN /\ dInflight' = Append(RemoveAt(dInflight, i),
                                   DCall("loadPath", "get_debug_log_path", "", "", FALSE))
            /\ UNCHANGED dSettled
       ELSE /\ dInflight' = RemoveAt(dInflight, i)
            /\ dSettled' = DFulfilled("load", NoValue)
    /\ UNCHANGED <<logFilePath, dIsLoading, interceptorVars, lastConsole,
                   notifVars, mcpVars, newsVars>>

debug_loadPath_resolved(i, path) ==
    /\ dInflight[i].op = "loadPath"
    /\ logFilePath' = path
    /\ dInflight' = RemoveAt(dInflight, i)
    /\ dSettled' = DFulfilled("load", NoValue)
    /\ UNCHANGED <<isEnabled, dIsLoading, interceptorVars, lastConsole,
                   notifVars, mcpVars, newsVars>>

debug_load_rejected(i, e) ==
    /\ dInflight[i].op \in {"load", "loadPath"}
    /\ caught("Failed to load debug state:", e, i)
    /\ dSettled' = [DFulfilled("load", NoValue) EXCEPT !.answer = e]
    /\ UNCHANGED <<relayVars, interceptorVars, notifVars, mcpVars, newsVars>>

\* ---- enable() / disable(); via is "toggle" when toggle() made the call, and
\* in the record of a settled toggle() the call it awaited
debug_enable_call(via) ==
    /\ dIsLoading' = TRUE
    /\ dInflight' = Append(dInflight, [DCall("enable", "enable_debug_mode", "", "", FALSE) EXCEPT !.via = via])
    /\ UNCHANGED <<isEnabled, logFilePath, interceptorVars, dSettled, lastConsole,
                   notifVars, mcpVars, newsVars>>

debug_enable_noPath(i, path) ==
    /\ dInflight[i].op = "enable" /\ dInflight[i].returned = {}
    /\ isEnabled' = TRUE
    /\ dIsLoading' = FALSE
    /\ dSettled' = [DFulfilled("enable", NoValue) EXCEPT !.result = path, !.via = dInflight[i].via]
    /\ dInflight' = DReturned(i, dSettled')
    /\ UNCHANGED <<logFilePath, interceptorVars, lastConsole, notifVars, mcpVars, newsVars>>

\* enable_debug_mode resolved with path: the path is stored, then the flag set.
debug_enable_resolved(i, path) ==
    /\ dInflight[i].op = "enable" /\ dInflight[i].returned = {}
    /\ logFilePath' = {path}
    /\ isEnabled' = TRUE
    /\ dIsLoading' = FALSE
    /\ dSettled' = [DFulfilled("enable", NoValue) EXCEPT !.result = path, !.via = dInflight[i].via]
    /\ dInflight' = DReturned(i, dSettled')
    /\ UNCHANGED <<interceptorVars, lastConsole, notifVars, mcpVars, newsVars>>

debug_disable_call(via) ==
    /\ dIsLoading' = TRUE
    /\ dInflight' = Append(dInflight, [DCall("disable", "disable_debug_mode", "", "", FALSE) EXCEPT !.via = via])
    /\ UNCHANGED <<isEnabled, logFilePath, interceptorVars, dSettled, lastConsole,
                   notifVars, mcpVars, newsVars>>

debug_disable_resolved(i) ==
    /\ dInflight[i].op = "disable" /\ dInflight[i].returned = {}
    /\ isEnabled' = FALSE
    /\ dIsLoading' = FALSE
    /\ dSettled' = [DFulfilled("disable", NoValue) EXCEPT !.via = dInflight[i].via]
    /\ dInflight' = DReturned(i, dSettled')
    /\ UNCHANGED <<logFilePath, interceptorVars, lastConsole, notifVars, mcpVars, newsVars>>

\* Mutant: the failure is logged and swallowed.
debug_switch_swallowed(i, e) ==
    /\ dInflight[i].op \in {"enable", "disable"} /\ dInflight[i].returned = {}
    /\ dSettled' = [DFulfilled(dInflight[i].op, NoValue) EXCEPT !.answer = e, !.via = dInflight[i].via]
    /\ caughtOn("Failed to switch debug mode:", e, DReturned(i, dSettled'))
    /\ dIsLoading' = FALSE
    /\ UNCHANGED <<isEnabled, logFilePath, interceptorVars, notifVars, mcpVars, newsVars>>

\* enable_debug_mode / disable_debug_mode rejected with e: catch, rethrow, finally.
debug_switch_rejected(i, e) ==
    /\ dInflight[i].op \in {"enable", "disable"} /\ dInflight[i].returned = {}
    /\ dSettled' = [DRejected(dInflight[i].op, e) EXCEPT !.via = dInflight[i].via]
    /\ caughtOn(IF dInflight[i].op = "enable" THEN "Failed to enable debug mode:"
                ELSE "Failed to disable debug mode:", e, DReturned(i, dSettled'))
    /\ dIsLoading' = FALSE
    /\ UNCHANGED <<isEnabled, logFilePath, interceptorVars, notifVars, mcpVars, newsVars>>

debug_toggle_same ==
    IF isEnabled THEN debug_enable_call("toggle") ELSE debug_disable_call("toggle")

\* ---- toggle(): disable() when enabled, enable() otherwise, awaited.
debug_toggle_call ==
    IF isEnabled THEN debug_disable_call("toggle") ELSE debug_enable_call("toggle")

\* toggle() resumes after `await this.disable()` / `await this.enable()`, a
\* turn after the awaited call returned, and settles as that call did.
debug_toggle_awaited(i) ==
    /\ dInflight[i].via = "toggle" /\ dInflight[i].returned # {}
    /\ \E r \in dInflight[i].returned :
            dSettled' = IF r.status = "fulfilled"
                        THEN [DFulfilled("toggle", NoValue) EXCEPT !.via = dInflight[i].op]
                        ELSE [DRejected("toggle", r.reason) EXCEPT !.via = dInflight[i].op]
    /\ dInflight' = RemoveAt(dInflight, i)
    /\ UNCHANGED <<relayVars, interceptorVars, lastConsole, notifVars, mcpVars, newsVars>>

\* ---- openLogsFolder()
openLogsFolder_call ==
    /\ dInflight' = Append(dInflight, DCall("openLogsFolder", "open_logs_folder", "", "", FALSE))
    /\ UNCHANGED <<relayVars, interceptorVars, dSettled, lastConsole, notifVars, mcpVars, newsVars>>

openLogsFolder_resolved(i) ==
    /\ dInflight[i].op = "openLogsFolder"
    /\ dInflight' = RemoveAt(dInflight, i)
    /\ dSettled' = DFulfilled("openLogsFolder", NoValue)
    /\ UNCHANGED <<relayVars, interceptorVars, lastConsole, notifVars, mcpVars, newsVars>>

openLogsFolder_rejected(i, e) ==
    /\ dInflight[i].op = "openLogsFolder"
    /\ caught("Failed to open logs folder:", e, i)
    /\ dSettled' = DRejected("openLogsFolder", e)
    /\ UNCHANGED <<relayVars, interceptorVars, notifVars, mcpVars, newsVars>>

\* ---- log / warn / error (message): no-ops while disabled, failures swallowed
RelayLevel(op) ==
    CASE op = "log" -> "INFO"
      [] op = "warn" -> "WARN"
      [] op = "error" -> "ERROR"

\* The early return of a relay method called while debug mode is disabled.
ReturnedEarly(op) == [DFulfilled(op, NoValue) EXCEPT !.issued = FALSE]

relay_call(c) ==
    /\ IF ~isEnabled
       THEN /\ dSettled' = ReturnedEarly(c.op)
            /\ UNCHANGED dInflight
       ELSE /\ dInflight' = Append(dInflight, c)
            /\ UNCHANGED dSettled
    /\ UNCHANGED <<relayVars, interceptorVars, lastConsole, notifVars, mcpVars, newsVars>>

debug_log(message) ==
    relay_call(DCall("log", "write_frontend_log", RelayLevel("log"), message, FALSE))
debug_warn(message) ==
    relay_call(DCall("warn", "write_frontend_log", RelayLevel("warn"), message, FALSE))
debug_error(message) ==
    relay_call(DCall("error", "write_frontend_log", RelayLevel("error"), message, FALSE))

\* ---- logInvoke(command, durationMs, success, args, error)
\* JSON.stringify throws inside the try and the empty catch swallows it: the
\* method returns with no backend call made.
logInvoke(command, durationMs, success, args, failure) ==
    IF isEnabled /\ throws(args)
    THEN /\ dSettled' = [DFulfilled("logInvoke", NoValue) EXCEPT !.issued = FALSE]
         /\ UNCHANGED <<dInflight, relayVars, interceptorVars, lastConsole,
                        notifVars, mcpVars, newsVars>>
    ELSE relay_call([DCall("logInvoke", "write_invoke_log", "", "", success)
                        EXCEPT !.command = command, !.durationMs = {durationMs},
                               !.args = stringified(args), !.error = orNull(failure)])

RelayOps == {"log", "warn", "error", "logInvoke"}
\* What a caller of logInvoke reports: a success, or a failure and its text.
Reports == {[success |-> TRUE, error |-> ""], [success |-> FALSE, error |-> "boom"]}

relay_resolved(i) ==
    /\ dInflight[i].op \in RelayOps
    /\ dInflight' = RemoveAt(dInflight, i)
    /\ dSettled' = DFulfilled(dInflight[i].op, NoValue)
    /\ UNCHANGED <<relayVars, interceptorVars, lastConsole, notifVars, mcpVars, newsVars>>

\* Mutant: the transport failure reaches the caller.
relay_surfaces(i, e) ==
    /\ dInflight[i].op \in RelayOps
    /\ dInflight' = RemoveAt(dInflight, i)
    /\ dSettled' = DRejected(dInflight[i].op, e)
    /\ UNCHANGED <<relayVars, interceptorVars, lastConsole, notifVars, mcpVars, newsVars>>

\* The empty catch: the transport failure is swallowed.
relay_rejected(i, e) ==
    /\ dInflight[i].op \in RelayOps
    /\ dInflight' = RemoveAt(dInflight, i)
    /\ dSettled' = [DFulfilled(dInflight[i].op, NoValue) EXCEPT !.answer = e]
    /\ UNCHANGED <<relayVars, interceptorVars, lastConsole, notifVars, mcpVars, newsVars>>

\* ---- debugInvoke(cmd, args)
Commands == {"get_all_mcps"}
\* e instanceof Error ? e.message : String(e)
errorMessage(e) == IF e.name # "" THEN e.message ELSE e.message

\* The write_invoke_log call made after the wrapped call settled, if any.
InvokeLogged(cmd, duration, success, args, failure, q) ==
    IF isEnabled
    THEN Append(q, [DCall("debugInvokeLog", "write_invoke_log", "", "", success)
                       EXCEPT !.command = cmd, !.durationMs = {duration},
                              !.args = stringified(args), !.error = failure])
    ELSE q

\* What JSON.stringify(args) throws.
StringifyError(args) == [name |-> "TypeError", message |-> args.thrown]

\* JSON.stringify(args) throws where the arguments of the write_invoke_log
\* call are built: in the try it lands in the catch clause, which builds them
\* again, and from there it leaves debugInvoke. No log call is made.
debugInvoke_thrown(i, answer, value) ==
    /\ dInflight' = RemoveAt(dInflight, i)
    /\ dSettled' = [DRejected("debugInvoke", StringifyError(dInflight[i].passed))
                        EXCEPT !.answer = answer, !.result = value]

debugInvoke_call(cmd, args) ==
    /\ dInflight' = Append(dInflight, [DCall("debugInvoke", cmd, "", "", FALSE)
                                          EXCEPT !.passed = args])
    /\ UNCHANGED <<relayVars, interceptorVars, dSettled, lastConsole, notifVars, mcpVars, newsVars>>

debugInvoke_resolved(i, value) ==
    /\ dInflight[i].op = "debugInvoke"
    /\ IF isEnabled /\ throws(dInflight[i].passed)
       THEN debugInvoke_thrown(i, NoError, value)
       ELSE /\ \E d \in Elapsed :
                    dInflight' = InvokeLogged(dInflight[i].cmd, d, TRUE, dInflight[i].passed,
                                              {}, RemoveAt(dInflight, i))
            /\ dSettled' = [DFulfilled("debugInvoke", value) EXCEPT !.result = value]
    /\ UNCHANGED <<relayVars, interceptorVars, lastConsole, notifVars, mcpVars, newsVars>>

debugInvoke_rejected(i, e) ==
    /\ dInflight[i].op = "debugInvoke"
    /\ IF isEnabled /\ throws(dInflight[i].passed)
       THEN debugInvoke_thrown(i, e, NoValue)
       ELSE /\ \E d \in Elapsed :
                    dInflight' = InvokeLogged(dInflight[i].cmd, d, FALSE, dInflight[i].passed,
                                              {errorMessage(e)}, RemoveAt(dInflight, i))
            /\ dSettled' = DRejected("debugInvoke", e)
    /\ UNCHANGED <<relayVars, interceptorVars, lastConsole, notifVars, mcpVars, newsVars>>

\* ---- the debug layer as its callers and the backend drive it
\* Callers start one of the methods in ops while fewer than cap backend calls
\* are outstanding.
DebugCall(cap, ops) ==
    /\ Len(dInflight) < cap
    /\ \/ "load" \in ops /\ debug_load_call
       \/ "enable" \in ops /\ debug_enable_call("")
       \/ "disable" \in ops /\ debug_disable_call("")
       \/ "toggle" \in ops /\ debug_toggle_call
       \/ "openLogsFolder" \in ops /\ openLogsFolder_call
       \/ "log" \in ops /\ \E m \in LogMessages : debug_log(m)
       \/ "warn" \in ops /\ \E m \in LogMessages : debug_warn(m)
       \/ "error" \in ops /\ \E m \in LogMessages : debug_error(m)
       \/ "logInvoke" \in ops /\ \E c \in Commands, d \in Elapsed, r \in Reports, args \in InvokeArgs :
                                    logInvoke(c, d, r.success, args, r.error)
       \/ "debugInvoke" \in ops /\ \E c \in Commands, args \in InvokeArgs :
                                      debugInvoke_call(c, args)

\* The backend answers an outstanding call of the group, in any order, with
\* success or failure.
LoadSettle(paths) ==
    \E i \in 1..Len(dInflight) :
        \/ \E b \in BOOLEAN : debug_load_resolved(i, b)
        \/ \E p \in {{}} \cup {{q} : q \in paths} : debug_loadPath_resolved(i, p)
        \/ \E e \in BackendErrors : debug_load_rejected(i, e)

SwitchSettle(paths) ==
    \E i \in 1..Len(dInflight) :
        \/ \E p \in paths : debug_enable_resolved(i, p)
        \/ debug_disable_resolved(i)
        \/ \E e \in BackendErrors : debug_switch_rejected(i, e)

\* A toggle() whose enable() or disable() has returned resumes.
ToggleResume == \E i \in 1..Len(dInflight) : debug_toggle_awaited(i)

FolderSettle ==
    \E i \in 1..Len(dInflight) :
        \/ openLogsFolder_resolved(i)
        \/ \E e \in BackendErrors : openLogsFolder_rejected(i, e)

WriteSettle ==
    \E i \in 1..Len(dInflight) :
        \/ relay_resolved(i)
        \/ \E e \in BackendErrors : relay_rejected(i, e)

InvokeSettle(results) ==
    \E i \in 1..Len(dInflight) :
        \/ \E r \in results : debugInvoke_resolved(i, r)
        \/ \E e \in BackendErrors : debugInvoke_rejected(i, e)

ForwardSettle ==
    \E i \in 1..Len(dInflight) :
        \/ forward_settled(i, NoError)
        \/ \E e \in BackendErrors : forward_settled(i, e)

\* Any code calls console.<fn>(...) or installs/uninstalls the interceptor.
ConsoleArgs == {<<StrArg("x"), ErrorArg("Error", "boom"), ValueArg({"{}"}, "[object Object]")>>}

ConsoleUse(cap) ==
    \/ installDebugInterceptor
    \/ uninstallDebugInterceptor
    \/ \E fn \in ConsoleFns, args \in ConsoleArgs :
            Len(dInflight) < cap /\ consoleCall(fn, args)

InitDebug ==
    /\ isEnabled = FALSE
    /\ logFilePath = {}
    /\ dIsLoading = FALSE
    /\ interceptorInstalled = FALSE
    /\ interceptorCall = [call |-> "none", effective |-> FALSE]
    /\ console = Originals
    /\ dInflight = <<>>
    /\ dSettled = [DFulfilled("none", NoValue) EXCEPT !.status = "none"]
    /\ lastConsole = [fn |-> "none", bound |-> "original", invoked |-> <<>>]

\* ==================================== what's-new store (WhatsNewState)
\* Versions and tags are sequences of characters.
V1 == <<"1">>
V2 == <<"2">>
Versions == {V1, V2}
\* What localStorage may hold under the key at startup: nothing, or a version.
StoredMarkers == {{}} \cup {{v} : v \in Versions}
Tagged(version) == <<"v">> \o version
KeepV(tag) == tag

\* tag_name.replace(/^v/, '')
StripV(tag) == IF Len(tag) > 0 /\ tag[1] = "v" THEN Tail(tag) ELSE tag
\* Mutant: the first-run test never holds.
NeverFalsy(item) == FALSE

\* !lastSeenVersion: no item, or the empty string
Falsy(item) == item = {} \/ item = {<<>>}

\* Mutant: the same-version test never holds.
NeverSame(item, currentVersion) == FALSE

\* lastSeenVersion === currentVersion
SameVersion(item, currentVersion) == item = {currentVersion}

\* Response bodies of the releases endpoint. name and body are {} when
\* empty or absent; tag_name is {} when the body is not a release at all.
ReleaseData(tag, name, body) ==
    [tag_name |-> tag, name |-> name, body |-> body,
     published_at |-> "2025-01-01", html_url |-> "https://github.com/r"]
Data1 == ReleaseData({Tagged(V1)}, {"One"}, {"notes"})
Data2 == ReleaseData({Tagged(V2)}, {}, {})
Malformed == ReleaseData({}, {}, {})
ReleaseBodies == {Data1, Data2, Malformed}

Some(set) == CHOOSE x \in set : TRUE

parseRelease(data) ==
    [version |-> StripV(Some(data.tag_name)),
     name |-> IF data.name # {} THEN <<Some(data.name)>>
              ELSE <<"Version ">> \o Some(data.tag_name),
     body |-> IF data.body # {} THEN Some(data.body) ELSE "No release notes available.",
     publishedAt |-> data.published_at,
     htmlUrl |-> data.html_url]

\* The record the catch clause of fetchReleaseNotes synthesizes.
FallbackRelease(version) ==
    [version |-> version,
     name |-> <<"Version ">> \o version,
     body |-> "You've been updated to the latest version! Check the GitHub releases page for details.",
     publishedAt |-> "now",
     htmlUrl |-> "https://github.com/tylergraydev/claude-code-tool-manager/releases"]

\* e instanceof Error ? e.message : 'Failed to fetch release notes'
FetchErrorText(e) == IF e.name # "" THEN e.message ELSE "Failed to fetch release notes"
NotFound == [name |-> "Error", message |-> "Release not found"]
\* What parseRelease throws on a body without tag_name.
NoTagName == [name |-> "TypeError",
              message |-> "Cannot read properties of undefined (reading 'replace')"]

\* What a call of the store awaits: the method called, the await it stands
\* at, the version it fetches, the tags it has requested so far, and whether
\* its fetchReleaseNotes ended in the catch clause.
Awaiting(op, stage, version, requests) ==
    [op |-> op, stage |-> stage, version |-> version, requests |-> requests,
     failed |-> FALSE]

\* The record of the last call to return or settle: its promise, the tags it
\* requested, whether it ended in the catch clause of fetchReleaseNotes, and
\* whether it wrote the localStorage item.
WSettled(op, requests, failed) ==
    [op |-> op, status |-> "fulfilled", requests |-> requests, failed |-> failed,
     wrote |-> FALSE]

\* The awaits inside fetchReleaseNotes.
FetchStages == {"tagged", "untagged", "json"}

\* ---- the three asynchronous methods, to their first await
checkForWhatsNew_call ==
    /\ wPending' = Append(wPending, Awaiting("checkForWhatsNew", "getVersion", <<>>, <<>>))
    /\ UNCHANGED <<isOpen, wIsLoading, release, wError, lastSeen, wSettled,
                   notifVars, mcpVars, debugVars>>

showCurrentReleaseNotes_call ==
    /\ wPending' = Append(wPending, Awaiting("showCurrentReleaseNotes", "getVersion", <<>>, <<>>))
    /\ UNCHANGED <<isOpen, wIsLoading, release, wError, lastSeen, wSettled,
                   notifVars, mcpVars, debugVars>>

fetchReleaseNotes_call(version) ==
    /\ wIsLoading' = TRUE
    /\ wError' = {}
    /\ wPending' = Append(wPending, Awaiting("fetchReleaseNotes", "tagged", version,
                                             <<Tagged(version)>>))
    /\ UNCHANGED <<isOpen, release, lastSeen, wSettled, notifVars, mcpVars, debugVars>>

fetchOpensEarly(i, version) ==
    /\ wIsLoading' = TRUE
    /\ wError' = {}
    /\ isOpen' = TRUE
    /\ wPending' = [wPending EXCEPT ![i] = Awaiting(wPending[i].op, "tagged", version,
                                                    <<Tagged(version)>>)]
    /\ UNCHANGED <<release, lastSeen, wSettled>>

\* ---- getVersion() answered
\* fetchReleaseNotes(version) begun inside the call at position i.
fetchBegunAt(i, version) ==
    /\ wIsLoading' = TRUE
    /\ wError' = {}
    /\ wPending' = [wPending EXCEPT ![i] = Awaiting(wPending[i].op, "tagged", version,
                                                    <<Tagged(version)>>)]
    /\ UNCHANGED <<isOpen, release, lastSeen, wSettled>>

getVersion_resolved(i, currentVersion) ==
    /\ wPending[i].stage = "getVersion"
    /\ IF wPending[i].op = "checkForWhatsNew" /\ Falsy(lastSeen)
       THEN /\ lastSeen' = {currentVersion}
            /\ wPending' = RemoveAt(wPending, i)
            /\ wSettled' = [WSettled("checkForWhatsNew", <<>>, FALSE) EXCEPT !.wrote = TRUE]
            /\ UNCHANGED <<isOpen, wIsLoading, release, wError>>
       ELSE IF wPending[i].op = "checkForWhatsNew" /\ SameVersion(lastSeen, currentVersion)
       THEN /\ wPending' = RemoveAt(wPending, i)
            /\ wSettled' = WSettled("checkForWhatsNew", <<>>, FALSE)
            /\ UNCHANGED <<isOpen, wIsLoading, release, wError, lastSeen>>
       ELSE fetchBegunAt(i, currentVersion)
    /\ UNCHANGED <<notifVars, mcpVars, debugVars>>

getVersion_rejected(i, e) ==
    /\ wPending[i].stage = "getVersion"
    /\ caughtOn(IF wPending[i].op = "checkForWhatsNew" THEN "Failed to check for what's new:"
                ELSE "Failed to show release notes:", e, dInflight)
    /\ wPending' = RemoveAt(wPending, i)
    /\ wSettled' = WSettled(wPending[i].op, <<>>, FALSE)
    /\ UNCHANGED <<isOpen, wIsLoading, release, wError, lastSeen,
                   relayVars, interceptorVars, dSettled, notifVars, mcpVars>>

\* ---- fetchReleaseNotes, from its first fetch on
\* fetchReleaseNotes returns inside the call at position i: called directly,
\* its promise is the caller's; inside checkForWhatsNew or
\* showCurrentReleaseNotes, the method resumes in a later turn.
fetchReturned(i, failed) ==
    IF wPending[i].op = "fetchReleaseNotes"
    THEN /\ wPending' = RemoveAt(wPending, i)
         /\ wSettled' = WSettled(wPending[i].op, wPending[i].requests, failed)
    ELSE /\ wPending' = [wPending EXCEPT ![i].stage = "fetched", ![i].failed = failed]
         /\ UNCHANGED wSettled

\* try completed: release set from the response body; finally.
fetchDone(i, rel) ==
    /\ release' = {rel}
    /\ wIsLoading' = FALSE
    /\ fetchReturned(i, FALSE)
    /\ UNCHANGED <<isOpen, wError, lastSeen>>

\* Mutant: the catch clause leaves release as it was.
KeepRelease(version) == release

Synthesized(version) == {FallbackRelease(version)}

\* catch (e): error and the fallback record set; finally.
fetchFailed(i, e) ==
    /\ wError' = {FetchErrorText(e)}
    /\ release' = Synthesized(wPending[i].version)
    /\ wIsLoading' = FALSE
    /\ fetchReturned(i, TRUE)
    /\ UNCHANGED <<isOpen, lastSeen>>

\* A fetch answered with a response: ok, or not (404 and the like).
fetch_resolved(i, ok) ==
    /\ wPending[i].stage \in {"tagged", "untagged"}
    /\ IF ok
       THEN /\ wPending' = [wPending EXCEPT ![i].stage = "json"]
            /\ UNCHANGED <<isOpen, wIsLoading, release, wError, lastSeen, wSettled>>
       ELSE IF wPending[i].stage = "tagged"
       THEN /\ wPending' = [wPending EXCEPT ![i].stage = "untagged",
                                           ![i].requests = Append(@, wPending[i].version)]
            /\ UNCHANGED <<isOpen, wIsLoading, release, wError, lastSeen, wSettled>>
       ELSE fetchFailed(i, NotFound)
    /\ UNCHANGED <<notifVars, mcpVars, debugVars>>

\* A fetch or a response.json() rejected with e.
fetch_rejected(i, e) ==
    /\ wPending[i].stage \in {"tagged", "untagged", "json"}
    /\ fetchFailed(i, e)
    /\ UNCHANGED <<notifVars, mcpVars, debugVars>>

\* response.json() answered with the body.
json_resolved(i, data) ==
    /\ wPending[i].stage = "json"
    /\ IF data.tag_name = {} THEN fetchFailed(i, NoTagName)
       ELSE fetchDone(i, parseRelease(data))
    /\ UNCHANGED <<notifVars, mcpVars, debugVars>>

\* checkForWhatsNew or showCurrentReleaseNotes resumes after its
\* `await this.fetchReleaseNotes(...)`: this.isOpen = true, and it returns.
fetch_awaited(i) ==
    /\ wPending[i].stage = "fetched"
    /\ isOpen' = TRUE
    /\ wPending' = RemoveAt(wPending, i)
    /\ wSettled' = WSettled(wPending[i].op, wPending[i].requests, wPending[i].failed)
    /\ UNCHANGED <<wIsLoading, release, wError, lastSeen, notifVars, mcpVars, debugVars>>

\* ---- dismiss()
\* Mutant: the application's version is written, whatever release is shown.
MarkCurrent(rel) == V2

Marked(rel) == rel.version

dismiss ==
    /\ isOpen' = FALSE
    /\ lastSeen' = IF release # {} THEN {Marked(Some(release))} ELSE lastSeen
    /\ wSettled' = [WSettled("dismiss", <<>>, FALSE) EXCEPT !.wrote = (release # {})]
    /\ UNCHANGED <<wIsLoading, release, wError, wPending,
                   notifVars, mcpVars, debugVars>>

\* ---- the store as its callers, the runtime and GitHub drive it
\* A method that is to resume takes its turn among the calls and answers
\* queued in the same task, in any order.
NewsCall(cap, ops, versions) ==
    /\ Len(wPending) < cap
    /\ \/ "checkForWhatsNew" \in ops /\ checkForWhatsNew_call
       \/ "showCurrentReleaseNotes" \in ops /\ showCurrentReleaseNotes_call
       \/ "fetchReleaseNotes" \in ops /\ \E v \in versions : fetchReleaseNotes_call(v)

NewsSettle(current, bodies) ==
    \E i \in 1..Len(wPending) :
        \/ \E v \in current : getVersion_resolved(i, v)
        \/ \E e \in BackendErrors : getVersion_rejected(i, e)
        \/ \E ok \in BOOLEAN : fetch_resolved(i, ok)
        \/ \E e \in BackendErrors : fetch_rejected(i, e)
        \/ \E data \in bodies : json_resolved(i, data)
        \/ fetch_awaited(i)

InitNews(stored) ==
    /\ isOpen = FALSE
    /\ wIsLoading = FALSE
    /\ release = {}
    /\ wError = {}
    /\ lastSeen \in stored
    /\ wPending = <<>>
    /\ wSettled = [WSettled("none", <<>>, FALSE) EXCEPT !.status = "none"]

\* Overlapping calls against a backend with a small repertoire.
NextMcp ==
    \/ McpCall(MaxInFlight, {1})
    \/ McpSettle({<<>>, <<Mcp2, Mcp1>>}, {Mcp1})
    \/ McpSync({Mcp1}, {<<>>, <<"A">>}, {"all", "stdio"})

\* One call at a time, with every load payload, search query and type filter.
NextView ==
    \/ McpCall(1, McpIds)
    \/ McpSettle(Payloads, {Mcp4})
    \/ McpSync(McpPool, Queries, TypeFilters)

Init == InitNotif /\ InitMcp /\ InitProj /\ InitDebug /\ InitNews({{}})

\* The debug store with overlapping calls.
RelayMethods == {"load", "enable", "disable", "toggle", "openLogsFolder",
              "log", "warn", "error", "logInvoke"}
NextRelay ==
    \/ DebugCall(MaxInFlight, RelayMethods)
    \/ LoadSettle(LogPaths)
    \/ SwitchSettle(LogPaths)
    \/ ToggleResume
    \/ FolderSettle
    \/ WriteSettle

SpecRelay == Init /\ [][NextRelay]_vars

\* The console and its interceptor while debug mode is switched on and off.
NextConsole ==
    \/ ConsoleUse(MaxInFlight)
    \/ DebugCall(MaxInFlight, {"enable", "disable"})
    \/ SwitchSettle({"/logs/a.log"})
    \/ ForwardSettle

SpecConsole == Init /\ [][NextConsole]_vars

\* The timing wrapper while debug mode is switched on and off.
NextInvoke ==
    \/ DebugCall(MaxInFlight, {"enable", "disable", "debugInvoke"})
    \/ SwitchSettle({"/logs/a.log"})
    \/ InvokeSettle(Results)
    \/ ForwardSettle

SpecInvoke == Init /\ [][NextInvoke]_vars

\* The what's-new store at startup and after, with or without a stored
\* marker: the startup check and fetchReleaseNotes called on its own.
NextNews ==
    \/ NewsCall(MaxInFlight, {"checkForWhatsNew", "fetchReleaseNotes"}, {V1})
    \/ NewsSettle({V2}, ReleaseBodies)
    \/ dismiss

InitStored == InitNotif /\ InitMcp /\ InitProj /\ InitDebug /\ InitNews(StoredMarkers)

SpecNews == InitStored /\ [][NextNews]_vars

\* The two methods that open the notification, the startup check and the
\* release notes shown on request, and its dismissal.
NextShown ==
    \/ NewsCall(MaxInFlight, {"checkForWhatsNew", "showCurrentReleaseNotes"}, {})
    \/ NewsSettle({V2}, ReleaseBodies)
    \/ dismiss

SpecShown == InitStored /\ [][NextShown]_vars

\* Startup checks and dismissals of an application that stays at version V2
\* after V1 was seen, against a releases endpoint that answers a request for a
\* tag with the release of that tag, or with something that is no release.
ReleaseAt(tag) == ReleaseData({tag}, {"One"}, {"notes"})
Requested(i) == wPending[i].requests[Len(wPending[i].requests)]

SeenCall(cap) == Len(wPending) < cap /\ checkForWhatsNew_call

SeenSettle(currentVersion) ==
    \E i \in 1..Len(wPending) :
        \/ getVersion_resolved(i, currentVersion)
        \/ \E e \in BackendErrors : getVersion_rejected(i, e)
        \/ \E ok \in BOOLEAN : fetch_resolved(i, ok)
        \/ \E e \in BackendErrors : fetch_rejected(i, e)
        \/ wPending[i].stage = "json" /\ json_resolved(i, ReleaseAt(Requested(i)))
        \/ wPending[i].stage = "json" /\ json_resolved(i, Malformed)
        \/ fetch_awaited(i)

NextSeen ==
    \/ SeenCall(MaxInFlight)
    \/ SeenSettle(V2)
    \/ dismiss

InitSeen == InitNotif /\ InitMcp /\ InitProj /\ InitDebug /\ InitNews({{V1}})

SpecSeen == InitSeen /\ [][NextSeen]_vars

\* The cross-entity operations of the projects store, overlapping, against a
\* backend that fails with an Error.
NextCross ==
    \/ CrossCall(MaxInFlight, {1}, {TRUE})
    \/ CrossSettle(ProjectPayloads, GlobalPayloads, {e \in BackendErrors : e.name = "Error"})

SpecCross == Init /\ [][NextCross]_vars

SpecNotif == Init /\ [][NextNotif]_vars

SpecMcp == Init /\ [][NextMcp]_vars

SpecView == Init /\ [][NextView]_vars

\* Both entity stores side by side, each call awaited before the next is made.
NextStores ==
    \/ McpCall(1, {1})
    \/ McpSettle({<<>>, <<Mcp2, Mcp1>>}, {Mcp1})
    \/ ProjCall(1)
    \/ ProjSettle(ProjectPayloads, {Proj1})

SpecStores == Init /\ [][NextStores]_vars

\* ---- the MCP library store against a backend that keeps the collection
\* The record create_mcp and duplicate_mcp store under a fresh id, and the one
\* update_mcp stores under the id it was given.
Stored(id) == [Mcp1 EXCEPT !.id = id]
Revised(id) == [Mcp2 EXCEPT !.id = id]

Ok(value) == [ok |-> TRUE, value |-> value]
Failed(e) == [ok |-> FALSE, value |-> e]
NoSuchMcp == [name |-> "", message |-> "denied"]

\* What the backend's collection, its next id and its response become when it
\* handles call c: get_all_mcps answers the collection, create_mcp and
\* duplicate_mcp store a record under a fresh id, update_mcp and duplicate_mcp
\* fail on an id the collection does not hold.
Handle(c) ==
    LET db == backend.mcps
        n == backend.nextId
        known == \E j \in 1..Len(db) : db[j].id = c.id
    IN  CASE c.op = "load" -> [mcps |-> db, nextId |-> n, response |-> Ok(db)]
          [] c.op = "create" \/ (c.op = "duplicate" /\ known) ->
                [mcps |-> Append(db, Stored(n)), nextId |-> n + 1, response |-> Ok(Stored(n))]
          [] c.op = "update" /\ known ->
                [mcps |-> [j \in 1..Len(db) |-> IF db[j].id = c.id THEN Revised(c.id) ELSE db[j]],
                 nextId |-> n, response |-> Ok(Revised(c.id))]
          [] c.op = "delete" ->
                [mcps |-> SelectSeq(db, LAMBDA r : r.id # c.id), nextId |-> n,
                 response |-> Ok(Void)]
          [] OTHER -> [mcps |-> db, nextId |-> n, response |-> Failed(NoSuchMcp)]

\* The backend handles a pending call; its response travels back later.
Serve(k) ==
    /\ inflight[k].response = {}
    /\ LET h == Handle(inflight[k])
       IN  /\ backend' = [mcps |-> h.mcps, nextId |-> h.nextId,
                          raced |-> backend.raced \/ Len(inflight) > 1]
           /\ inflight' = [inflight EXCEPT ![k].response = {h.response}]
    /\ UNCHANGED <<settled, libVars, projVars, notifVars, debugVars, newsVars>>

BackedCall(cap, ids) ==
    /\ Len(inflight) < cap
    /\ \/ load_call
       \/ \E req \in Requests : backend.nextId + PendingAppends <= MaxLen /\ create_call(req)
       \/ \E id \in ids, req \in Requests : update_call(id, req)
       \/ \E id \in ids : delete_call(id)
       \/ \E id \in ids : backend.nextId + PendingAppends <= MaxLen /\ duplicate_call(id)

\* A response arrives, in any order among the calls already handled.
Answered(i, ok) == inflight[i].response # {} /\ Some(inflight[i].response).ok = ok
Answer(i) == Some(inflight[i].response).value

BackedSettle ==
    \E i \in 1..Len(inflight) :
        \/ Answered(i, TRUE) /\ load_resolved(i, Answer(i))
        \/ Answered(i, TRUE) /\ create_resolved(i, Answer(i))
        \/ Answered(i, TRUE) /\ update_resolved(i, Answer(i))
        \/ Answered(i, TRUE) /\ delete_resolved(i)
        \/ Answered(i, TRUE) /\ duplicate_resolved(i, Answer(i))
        \/ Answered(i, FALSE) /\ mutation_rejected(i, Answer(i))

NextBacked ==
    \/ BackedCall(MaxInFlight, {1})
    \/ \E k \in 1..Len(inflight) : Serve(k)
    \/ BackedSettle

SpecBacked == Init /\ [][NextBacked]_vars

\* Overlapping loads of the two entity stores and nothing else.
RaceCall(cap) ==
    /\ Len(inflight) < cap
    /\ \/ load_begin(Followed)
       \/ loadProjects_begin(Followed)

RaceSettle(payloads, projectPayloads) ==
    \E i \in 1..Len(inflight) :
        \/ \E payload \in payloads : load_resolved(i, payload)
        \/ \E e \in BackendErrors : load_rejected(i, e)
        \/ \E payload \in projectPayloads : loadProjects_resolved(i, payload)
        \/ \E e \in BackendErrors : loadProjects_rejected(i, e)

NextRace ==
    \/ RaceCall(MaxInFlight)
    \/ RaceSettle({<<>>, <<Mcp1>>, <<Mcp2, Mcp1>>}, ProjectPayloads)

SpecRace == Init /\ [][NextRace]_vars

\* ------------------------------------------------ notification center: claims
NotifIds == {n.id : n \in Range(notifications)}
Present(id) == id \in NotifIds
TimerPending(id) == \E t \in timers : t.id = id
\* The position of the add call that produced id, in call order.
LogPos(id) == CHOOSE k \in 1..Len(addLog) : addLog[k].id = id

\* C1: a notification added with duration 0 is never removed by the passage of
\* time; one added with duration d > 0 and not removed by remove/clear is in the
\* list at every instant before d has elapsed since its add, and is gone once d
\* has elapsed and its callback has run (the clock never passes a due callback).
C1_AutoDismiss ==
    \A k \in 1..Len(addLog) :
        LET e == addLog[k] IN
        e.id \notin dismissed =>
            /\ e.duration = 0 => Present(e.id)
            /\ (e.duration > 0 /\ now < e.at + e.duration) => Present(e.id)
            /\ (e.duration > 0 /\ now >= e.at + e.duration /\ ~TimerPending(e.id))
                    => ~Present(e.id)
            /\ (e.duration > 0 /\ now > e.at + e.duration) => ~Present(e.id)

\* A sticky notification has outlived 5000 ms while one with duration 2500 is
\* gone exactly 2500 ms after its add, neither having been removed by hand.
C1_Witness ==
    \E i, j \in 1..Len(addLog) :
        /\ addLog[i].duration = 0 /\ addLog[i].id \notin dismissed
        /\ now >= addLog[i].at + DefaultDuration /\ Present(addLog[i].id)
        /\ addLog[j].duration = 2500 /\ addLog[j].id \notin dismissed
        /\ now = addLog[j].at + 2500 /\ ~Present(addLog[j].id)

C2_Order ==
    \A i, j \in 1..Len(notifications) :
        /\ \E k \in 1..Len(addLog) :
                /\ addLog[k].id = notifications[i].id
                /\ addLog[k].duration = notifications[i].duration
        /\ i < j => LogPos(notifications[i].id) < LogPos(notifications[j].id)

C2_AddStep ==
    \A t \in NotificationTypes, m \in Messages, d \in Durations :
        add(t, m, d) =>
            /\ Len(notifications') = Len(notifications) + 1
            /\ \A i \in 1..Len(notifications) : notifications'[i] = notifications[i]
            /\ notifications'[Len(notifications')] =
                   [id |-> lastId', type |-> t, message |-> m, duration |-> d]
            /\ lastId' \notin NotifIds

C2_HelperStep ==
    Helper => notifications'[Len(notifications')].duration = 5000

\* C2: the list holds the surviving notifications in the order of their add
\* calls; add appends one record, returns the identifier stored in it, and an
\* add without a duration argument stores duration 5000.
C2_InsertionOrder == [](C2_Order) /\ [][C2_AddStep /\ C2_HelperStep]_vars

\* After three adds and the removal of the second, the first and the third are
\* left, in that order, the last of them added without a duration.
C2_Witness ==
    /\ Len(notifications) = 2
    /\ notifications[1].id = 1 /\ notifications[2].id = 3
    /\ notifications[1].duration = 0
    /\ notifications[2].duration = DefaultDuration /\ notifications[2].type = "warning"
    /\ lastId = 3

\* The list with the records whose id is id taken out, stated by positions: the
\* j-th record of the result is the j-th record of list that has another id.
IsListWithout(result, list, id) ==
    LET keep == {i \in 1..Len(list) : list[i].id # id}
        Nth(j) == CHOOSE i \in keep : Cardinality({h \in keep : h < i}) = j - 1
    IN  /\ Len(result) = Cardinality(keep)
        /\ \A j \in 1..Len(result) : result[j] = list[Nth(j)]

C3_RemoveStep ==
    \A id \in 1..MaxAdds :
        remove(id) =>
            /\ IsListWithout(notifications', notifications, id)
            /\ Present(id) => Len(notifications') = Len(notifications) - 1
            /\ ~Present(id) => notifications' = notifications

\* C3: remove(id) takes out exactly the notification with that id and leaves
\* the others and their order alone; remove of an id not in the list changes
\* nothing; clear() leaves the empty list.
C3_RemoveClearFrame == [][C3_RemoveStep /\ (Clear => notifications' = <<>>)]_vars

\* The middle one of three notifications has been removed by hand.
C3_Witness ==
    /\ Len(notifications) = 2
    /\ notifications[1].id = 1 /\ notifications[2].id = 3
    /\ dismissed = {2}
    /\ \A t \in timers : t.due > now

\* ---------------------------------------------------- entity stores: claims
\* The text String(e) gives for each thing the backend rejects with.
ExpectedText(e) ==
    CASE e = [name |-> "Error", message |-> "Network error"] -> "Error: Network error"
      [] e = [name |-> "", message |-> "denied"] -> "denied"

LoadsInFlight == Len(SelectSeq(inflight, LAMBDA c : c.op = "load"))

C4_LoadFailed ==
    \A i \in 1..Len(inflight) : \A e \in BackendErrors :
        load_rejected(i, e) =>
            /\ settled'.op = "load" /\ settled'.status = "fulfilled"
            /\ error' = {ExpectedText(e)}
            /\ isLoading' = FALSE
            /\ mcps' = mcps

C4_LoadSucceeded ==
    \A i \in 1..Len(inflight) : \A payload \in Payloads :
        load_resolved(i, payload) =>
            /\ settled'.op = "load" /\ settled'.status = "fulfilled"
            /\ isLoading' = FALSE

\* C4: load() never rejects. When get_all_mcps fails the failure is stored in
\* error as text and the cache is left alone; isLoading is false once the call
\* has settled, whether it succeeded or failed.
C4_LoadNeverRejects ==
    /\ [](settled.op = "load" => settled.status = "fulfilled")
    /\ [][C4_LoadFailed /\ C4_LoadSucceeded]_vars

\* A load has failed on an Error object after an earlier one had filled the
\* cache: the promise is fulfilled, the text is in error, nothing is loading.
C4_Witness ==
    /\ settled.op = "load" /\ settled.status = "fulfilled"
    /\ settled.answer = [name |-> "Error", message |-> "Network error"]
    /\ error = {"Error: Network error"}
    /\ isLoading = FALSE /\ inflight = <<>>
    /\ mcps = <<Mcp2, Mcp1>>

MutationOps == {"create", "update", "delete", "duplicate", "toggleGlobal",
                "addProject", "removeProject"}

C5_FailedMutation ==
    \A i \in 1..Len(inflight) : \A e \in BackendErrors :
        (mutation_rejected(i, e) \/ projectMutation_rejected(i, e)) =>
            /\ settled'.op = inflight[i].op
            /\ settled'.status = "rejected" /\ settled'.reason = e
            /\ mcps' = mcps /\ projects' = projects

C5_OnlyAfterSuccess ==
    (mcps' # mcps \/ projects' # projects) =>
        \E i \in 1..Len(inflight) :
            /\ inflight' = RemoveAt(inflight, i)
            /\ settled'.op = inflight[i].op
            /\ settled'.status = "fulfilled" /\ settled'.answer = NoError

\* C5: when the backend call of a mutation fails, the caller's promise is
\* rejected with that failure and both caches are what they were; a cache only
\* changes in the step in which a backend call settles with success.
C5_MutationsPropagate ==
    /\ [](settled.op \in MutationOps /\ settled.answer # NoError
            => settled.status = "rejected" /\ settled.reason = settled.answer)
    /\ [][C5_FailedMutation /\ C5_OnlyAfterSuccess]_vars

\* A mutation has just been rejected while both caches hold entries.
C5_Witness ==
    /\ settled.op \in MutationOps /\ settled.status = "rejected"
    /\ settled.reason = [name |-> "", message |-> "denied"]
    /\ mcps = <<Mcp2, Mcp1>> /\ projects = <<Proj1, Proj2>>

C6_LoadStep ==
    \A i \in 1..Len(inflight) : \A payload \in Payloads :
        load_resolved(i, payload) =>
            /\ mcps' = payload
            /\ Len(mcps') <= Len(payload)

\* C6: a successful load() leaves the cache equal to the payload it resolved
\* with, whatever the cache held before; in particular a load answered with
\* what the cache already holds does not make it longer.
C6_LoadReplaces ==
    /\ [](settled.op = "load" /\ settled.answer = NoError /\ settled.same
            => Len(mcps) <= Len(settled.payload))
    /\ [][C6_LoadStep]_vars

\* The last load was answered with the two records the cache already held, and
\* the cache still holds just these two.
C6_Witness ==
    /\ settled.op = "load" /\ settled.answer = NoError
    /\ settled.same /\ settled.payload = <<Mcp2, Mcp1>>
    /\ mcps = <<Mcp2, Mcp1>>

C7_ToggleStep ==
    \A i \in 1..Len(inflight) :
        toggleGlobal_resolved(i) =>
            LET id == inflight[i].id
                enabled == inflight[i].enabled
            IN  /\ Len(mcps') = Len(mcps)
                /\ \A k \in 1..Len(mcps) :
                      /\ mcps[k].id # id => mcps'[k] = mcps[k]
                      /\ mcps[k].id = id =>
                            /\ mcps'[k].isEnabledGlobal = enabled
                            /\ \A f \in DOMAIN mcps[k] \ {"isEnabledGlobal"} :
                                  mcps'[k][f] = mcps[k][f]
                            /\ DOMAIN mcps'[k] = DOMAIN mcps[k]
                /\ (\A k \in 1..Len(mcps) : mcps[k].id # id) => mcps' = mcps
                /\ searchQuery' = searchQuery /\ selectedType' = selectedType

\* C7: a successful toggleGlobal(id, enabled) sets isEnabledGlobal on the
\* entries whose id is id, changes no other field, no other entry and no
\* position, and leaves the search query and the type filter alone; with no
\* such entry the cache is unchanged.
C7_ToggleGlobalFrame == [][C7_ToggleStep]_vars

\* toggleGlobal(1, TRUE) has just succeeded on a cache holding records 2 and 1,
\* with a search query and a type filter in force.
C7_Witness ==
    /\ settled.op = "toggleGlobal" /\ settled.status = "fulfilled"
    /\ mcps = <<Mcp2, [Mcp1 EXCEPT !.isEnabledGlobal = TRUE]>>
    /\ searchQuery = <<"A">> /\ selectedType = "stdio"

\* needle occurs in hay, letter case ignored.
ContainsIgnoringCase(hay, needle) ==
    \E k \in 0..(Len(hay) - Len(needle)) :
        \A i \in 1..Len(needle) : Lower(hay[k + i]) = Lower(needle[i])

\* m passes the current search query and the current type filter.
Matches(m) ==
    /\ \/ searchQuery = <<>>
       \/ ContainsIgnoringCase(m.name, searchQuery)
       \/ \E d \in m.description : ContainsIgnoringCase(d, searchQuery)
       \/ \E ts \in m.tags : \E i \in 1..Len(ts) : ContainsIgnoringCase(ts[i], searchQuery)
    /\ selectedType = "all" \/ m.type = selectedType

Occurrences(list, r) == Cardinality({i \in 1..Len(list) : list[i] = r})

\* The names of the pool in alphabetical order: a, ab, Ab, B.
NameOrder == << <<"a">>, <<"a", "b">>, <<"A", "b">>, <<"B">> >>
NamePos(name) == CHOOSE k \in 1..Len(NameOrder) : NameOrder[k] = name

\* C8: filteredMcps holds exactly the cache entries that match the search
\* query (case ignored; name, description or a tag) and the type filter, each
\* as often as the cache holds it, favorites first and by name among entries
\* of equal favorite status, in every state any sequence of operations reaches.
C8_FilteredView ==
    LET f == filteredMcps IN
    /\ \A r \in Range(mcps) \cup Range(f) :
          Occurrences(f, r) = IF Matches(r) THEN Occurrences(mcps, r) ELSE 0
    /\ \A i, j \in 1..Len(f) :
          i < j =>
            /\ f[j].isFavorite => f[i].isFavorite
            /\ f[i].isFavorite = f[j].isFavorite => NamePos(f[i].name) <= NamePos(f[j].name)

\* The query "A" on a cache of four picks the three entries with an a or A in
\* name, description or tag, in name order a, ab, Ab.
C8_Witness ==
    /\ mcps = <<Mcp3, Mcp4, Mcp1, Mcp2>>
    /\ searchQuery = <<"A">> /\ selectedType = "all"
    /\ filteredMcps = <<Mcp4, Mcp2, Mcp3>>

\* C9: mcpCount.total is the length of the cache and stdio/http/sse the
\* number of cache entries of that type, whatever the search query and type
\* filter are; with every entry of one of the three types they add up to total.
C9_Counts ==
    LET n(t) == Cardinality({i \in 1..Len(mcps) : mcps[i].type = t}) IN
    /\ mcpCount.total = Len(mcps)
    /\ mcpCount.stdio = n("stdio") /\ mcpCount.http = n("http") /\ mcpCount.sse = n("sse")
    /\ (\A i \in 1..Len(mcps) : mcps[i].type \in {"stdio", "http", "sse"})
          => mcpCount.total = mcpCount.stdio + mcpCount.http + mcpCount.sse

\* Four records, two of them stdio, counted while a query and a type filter
\* hide most of them.
C9_Witness ==
    /\ mcps = <<Mcp3, Mcp4, Mcp1, Mcp2>>
    /\ searchQuery = <<"b", "b">> /\ selectedType = "http"
    /\ Len(filteredMcps) = 0
    /\ mcpCount = [total |-> 4, stdio |-> 2, http |-> 1, sse |-> 1]

\* C10 as it was stated: isLoading is true exactly when a load() is in flight.
C10_Exact == isLoading <=> LoadsInFlight > 0

C10_NoOverlapStep ==
    (C10_Exact /\ LoadsInFlight <= 1 /\ LoadsInFlight' <= 1) => C10_Exact'

C10_OverlapStep ==
    (LoadsInFlight > 1 /\ LoadsInFlight' < LoadsInFlight) => isLoading' = FALSE

\* C10: isLoading is true only while a load() is in flight, and
\* exactly then as long as load() calls do not overlap; the first of two
\* overlapping calls to settle sets it false while the other is in flight.
C10_LoadingOnlyDuringLoad ==
    /\ [](isLoading => LoadsInFlight > 0)
    /\ [][C10_NoOverlapStep /\ C10_OverlapStep]_vars

\* One of two overlapping load() calls has settled: the other is still in
\* flight and isLoading is already false.
C10_Witness == LoadsInFlight = 1 /\ isLoading = FALSE /\ settled.op = "load"

\* ------------------------------------------------------ debug layer: claims
\* The enable() and disable() calls whose backend call is unanswered.
SwitchesInFlight ==
    Len(SelectSeq(dInflight, LAMBDA c : c.op \in {"enable", "disable"} /\ c.returned = {}))

\* The step is the return of the enable() or disable() call at position i:
\* the call is over, or toggle(), which awaits it, has its outcome to resume on.
SwitchReturned(i) ==
    /\ dInflight[i].op \in {"enable", "disable"} /\ dInflight[i].returned = {}
    /\ dSettled'.op = dInflight[i].op /\ dSettled'.via = dInflight[i].via
    /\ IF dInflight[i].via = "" THEN dInflight' = RemoveAt(dInflight, i)
       ELSE dInflight' = [dInflight EXCEPT ![i].returned = {dSettled'}]

\* The step is the resumption of the toggle() that awaited the call at i.
ToggleResumed(i) ==
    /\ dInflight[i].via = "toggle" /\ dInflight[i].returned # {}
    /\ dInflight' = RemoveAt(dInflight, i)
    /\ dSettled'.op = "toggle"

\* A step in which enable() or disable() is called.
C11_CallStep ==
    SwitchesInFlight' > SwitchesInFlight => dIsLoading' = TRUE

\* A step in which the backend call of enable() or disable() settles.
C11_SettleStep ==
    SwitchesInFlight' < SwitchesInFlight =>
        /\ dIsLoading' = FALSE
        /\ dSettled'.op \in {"enable", "disable"}
        /\ dSettled'.answer = NoError => dSettled'.status = "fulfilled"
        /\ dSettled'.answer # NoError =>
                /\ dSettled'.status = "rejected"
                /\ dSettled'.reason = dSettled'.answer
                /\ isEnabled' = isEnabled
                /\ logFilePath' = logFilePath

\* Between its call and its settling a call that no other enable()/disable()
\* overlaps keeps the flag set.
C11_HeldStep ==
    ((dIsLoading <=> SwitchesInFlight > 0) /\ SwitchesInFlight <= 1 /\ SwitchesInFlight' <= 1)
        => (dIsLoading' <=> SwitchesInFlight' > 0)

\* C11: enable() and disable() set isLoading when called and clear it when
\* their backend call settles, with success or failure; a failure reaches the
\* caller as the rejection of its promise and leaves isEnabled and logFilePath
\* as they were.
C11_SwitchLoadingAndFailure ==
    /\ [](dIsLoading => SwitchesInFlight > 0)
    /\ [][C11_CallStep /\ C11_SettleStep /\ C11_HeldStep]_vars

\* disable() has failed on an enabled relay: the caller holds the rejection,
\* the relay is still enabled with its path, and the flag is cleared.
C11_Witness ==
    /\ dSettled.op = "disable" /\ dSettled.status = "rejected"
    /\ dSettled.reason \in BackendErrors
    /\ isEnabled /\ logFilePath = {"/logs/a.log"}
    /\ ~dIsLoading /\ dInflight = <<>>

WritesInFlight == Len(SelectSeq(dInflight, LAMBDA c : c.op \in RelayOps))

\* A step in which log, warn, error or logInvoke is called.
C12_CallStep ==
    (/\ \/ dInflight' = dInflight
        \/ Len(dInflight') = Len(dInflight) + 1 /\ dInflight'[Len(dInflight')].op \in RelayOps
     /\ \/ \E m \in LogMessages : debug_log(m) \/ debug_warn(m) \/ debug_error(m)
        \/ \E c \in Commands, d \in Elapsed, r \in Reports, args \in InvokeArgs :
               logInvoke(c, d, r.success, args, r.error)) =>
            /\ ~isEnabled => (dInflight' = dInflight /\ dSettled'.status = "fulfilled"
                              /\ dSettled'.op \in RelayOps)
            /\ isEnabled => \/ /\ Len(dInflight') = Len(dInflight) + 1
                                /\ dInflight'[Len(dInflight')].cmd
                                       \in {"write_frontend_log", "write_invoke_log"}
                             \/ /\ dInflight' = dInflight
                                /\ dSettled' = ReturnedEarly("logInvoke")
            /\ UNCHANGED relayVars

\* A step in which the backend call of one of them settles.
C12_SettleStep ==
    WritesInFlight' < WritesInFlight =>
        /\ dSettled'.op \in RelayOps
        /\ dSettled'.status = "fulfilled"
        /\ Len(dInflight') = Len(dInflight) - 1
        /\ UNCHANGED relayVars

\* C12: log, warn, error and logInvoke make no backend call when isEnabled is
\* false as they are called; called or settling, with the backend succeeding
\* or failing, they never reject and never change isEnabled, logFilePath or
\* isLoading.
C12_RelayWritesAreSilent ==
    /\ [](dSettled.op \in RelayOps => dSettled.status = "fulfilled")
    /\ [](\A i \in 1..Len(dInflight) :
            dInflight[i].cmd \in {"write_frontend_log", "write_invoke_log"}
                => dInflight[i].op \in RelayOps)
    /\ [][C12_CallStep /\ C12_SettleStep]_vars

\* log() has returned early on a disabled relay while a warn() issued when
\* it was still enabled awaits its answer.
C12_Witness ==
    /\ ~isEnabled
    /\ dSettled = ReturnedEarly("log")
    /\ Len(dInflight) = 1 /\ dInflight[1].op = "warn"

C13_InstallStep ==
    installDebugInterceptor =>
        /\ interceptorInstalled' /\ console' = Wrappers
        /\ interceptorInstalled => UNCHANGED <<interceptorInstalled, console>>

C13_UninstallStep ==
    uninstallDebugInterceptor =>
        /\ ~interceptorInstalled' /\ console' = Originals
        /\ ~interceptorInstalled => UNCHANGED <<interceptorInstalled, console>>

\* Nothing but an install or uninstall call touches the flag or the console.
C13_OtherStep ==
    UNCHANGED interceptorCall => UNCHANGED <<interceptorInstalled, console>>

\* C13: install while installed and uninstall while not installed change
\* neither the flag nor the console entry points; isInstalled() is true iff
\* the last install/uninstall call that took effect was an install, and the
\* entry points are the wrappers iff it is true, the originals otherwise.
C13_InstallIdempotent ==
    /\ [](isInterceptorInstalled <=> interceptorCall.call = "install")
    /\ [](console = IF isInterceptorInstalled THEN Wrappers ELSE Originals)
    /\ [][C13_InstallStep /\ C13_UninstallStep /\ C13_OtherStep]_vars

\* install has been called on an installed interceptor, and a console call
\* made since went through its wrapper.
C13_Witness ==
    /\ interceptorCall = [call |-> "install", effective |-> FALSE]
    /\ isInterceptorInstalled /\ console = Wrappers
    /\ lastConsole.bound = "wrapper"

ForwardsInFlight == Len(SelectSeq(dInflight, LAMBDA c : c.op = "sendToBackend"))
Count(s, x) == Cardinality({i \in 1..Len(s) : s[i] = x})

\* A step in which console.log/warn/error/info is called.
C14_ConsoleStep ==
    \A fn \in ConsoleFns, args \in ConsoleArgs :
        consoleCall(fn, args) =>
            /\ Count(lastConsole'.invoked, "original") = 1
            /\ lastConsole'.invoked[1] = "original"
            /\ Count(lastConsole'.invoked, "invoke") = ForwardsInFlight' - ForwardsInFlight
            /\ ForwardsInFlight' - ForwardsInFlight =
                    IF interceptorInstalled /\ isEnabled THEN 1 ELSE 0
            /\ Len(dInflight') = Len(dInflight) + (ForwardsInFlight' - ForwardsInFlight)
            /\ ForwardsInFlight' > ForwardsInFlight =>
                    /\ dInflight'[Len(dInflight')].cmd = "write_frontend_log"
                    /\ dInflight'[Len(dInflight')].level = Level(fn)

\* A step in which a forward settles.
C14_ForwardSettleStep ==
    ForwardsInFlight' < ForwardsInFlight =>
        /\ Len(dInflight') = Len(dInflight) - 1
        /\ dSettled'.status = "none"
        /\ UNCHANGED <<relayVars, interceptorVars, lastConsole>>

\* C14: through a wrapper every console call invokes the original entry point
\* once and first; it forwards at most once and only if debug mode is enabled
\* as it is called; a forward that fails throws at nobody and causes no other
\* forward; while the interceptor is not installed nothing is forwarded.
C14_WrapperForwards ==
    [][/\ C14_ConsoleStep
       /\ C14_ForwardSettleStep
       /\ ForwardsInFlight' > ForwardsInFlight => (interceptorInstalled /\ isEnabled)]_vars

\* console.warn went through its wrapper with debug mode enabled, and its
\* forward has failed.
C14_Witness ==
    /\ lastConsole = [fn |-> "warn", bound |-> "wrapper", invoked |-> <<"original", "invoke">>]
    /\ dSettled.op = "sendToBackend" /\ dSettled.answer \in BackendErrors
    /\ dInflight = <<>>

InvokesInFlight == Len(SelectSeq(dInflight, LAMBDA c : c.op = "debugInvoke"))
InvokeLogsInFlight == Len(SelectSeq(dInflight, LAMBDA c : c.op = "debugInvokeLog"))

\* A step in which the wrapped backend call settles.
C15_SettleStep ==
    InvokesInFlight' < InvokesInFlight =>
        /\ dSettled'.op = "debugInvoke"
        /\ dSettled'.answer = NoError =>
                /\ dSettled'.status = "fulfilled"
                /\ dSettled'.result \in Results
                /\ dSettled'.value = dSettled'.result
        /\ dSettled'.answer # NoError =>
                /\ dSettled'.status = "rejected"
                /\ dSettled'.reason = dSettled'.answer
        /\ InvokeLogsInFlight' - InvokeLogsInFlight = IF isEnabled THEN 1 ELSE 0
        /\ Len(dInflight') = Len(dInflight) - 1 + (InvokeLogsInFlight' - InvokeLogsInFlight)
        /\ InvokeLogsInFlight' > InvokeLogsInFlight =>
                /\ dInflight'[Len(dInflight')].cmd = "write_invoke_log"
                /\ dInflight'[Len(dInflight')].success = (dSettled'.answer = NoError)
        /\ UNCHANGED relayVars

\* A step in which a write_invoke_log call of the wrapper settles.
C15_LogSettleStep ==
    InvokeLogsInFlight' < InvokeLogsInFlight =>
        /\ dSettled'.status = "none"
        /\ Len(dInflight') = Len(dInflight) - 1
        /\ UNCHANGED relayVars

\* C15: debugInvoke resolves with the value the wrapped call resolved with and
\* rejects with the error it rejected with, debug mode enabled or not and the
\* write_invoke_log call failing or not; it makes one write_invoke_log call,
\* with success true on resolve and false on reject, when debug mode is
\* enabled as the wrapped call settles, and none otherwise.
C15_InvokeTransparent ==
    /\ [](dSettled.op = "debugInvoke" =>
            \/ dSettled.status = "fulfilled" /\ dSettled.value = dSettled.result
            \/ dSettled.status = "rejected" /\ dSettled.reason = dSettled.answer)
    /\ [][/\ C15_SettleStep
          /\ C15_LogSettleStep
          /\ InvokeLogsInFlight' > InvokeLogsInFlight => isEnabled]_vars

\* ------------------------------------------------ what's-new store: claims
\* A step in which checkForWhatsNew learns the version with no marker stored.
C16_FirstRunStep ==
    \A i \in 1..Len(wPending), v \in Versions :
        (getVersion_resolved(i, v) /\ wPending[i].op = "checkForWhatsNew" /\ lastSeen = {}) =>
            /\ lastSeen' = {v}
            /\ isOpen' = isOpen
            /\ wPending' = RemoveAt(wPending, i)
            /\ wSettled'.op = "checkForWhatsNew" /\ wSettled'.requests = <<>>
            /\ UNCHANGED <<wIsLoading, release, wError>>

\* C16: on a first-ever run checkForWhatsNew does not open the modal and
\* fetches nothing, and stores the current version as the last-seen marker.
C16_FirstRunSilent == [][C16_FirstRunStep]_vars

\* A first run has ended: the marker holds the current version, nothing was
\* fetched, the modal is closed.
C16_Witness ==
    /\ wSettled.op = "checkForWhatsNew" /\ wSettled.wrote
    /\ lastSeen = {V2}
    /\ ~isOpen /\ release = {} /\ ~wIsLoading /\ wPending = <<>>

\* A step in which checkForWhatsNew learns the version and does not go on to
\* fetch: there is no marker, or the marker is that version.
C17_NoNewsStep ==
    \A i \in 1..Len(wPending), v \in Versions :
        (getVersion_resolved(i, v) /\ wPending[i].op = "checkForWhatsNew") =>
            /\ lastSeen = {v} =>
                    /\ UNCHANGED <<isOpen, wIsLoading, release, wError, lastSeen>>
                    /\ wPending' = RemoveAt(wPending, i)
                    /\ wSettled'.requests = <<>>
            /\ (lastSeen = {} \/ lastSeen = {v}) <=> Len(wPending') < Len(wPending)

\* A step in which a checkForWhatsNew call ends: it opens the modal only if
\* it fetched, which it does only on a marker that differs.
C17_OpenStep ==
    (Len(wPending') < Len(wPending) /\ wSettled'.op = "checkForWhatsNew"
        /\ wSettled'.requests = <<>>) => isOpen' = isOpen

\* C17: checkForWhatsNew on a marker equal to the current version fetches
\* nothing and leaves isOpen, isLoading, release, error and the marker as they
\* were; it opens the modal only when a marker exists and differs from the
\* current version.
C17_SameVersionNothing == [][C17_NoNewsStep /\ C17_OpenStep]_vars

\* checkForWhatsNew has returned on a marker equal to the current version.
C17_Witness ==
    /\ wSettled.op = "checkForWhatsNew" /\ ~wSettled.wrote /\ wSettled.requests = <<>>
    /\ lastSeen = {V2}
    /\ ~isOpen /\ release = {} /\ wError = {} /\ wPending = <<>>

\* The tags a call may have requested so far: the tagged form, then the untagged.
RequestedInOrder(requests, version) ==
    \/ requests = <<Tagged(version)>>
    \/ requests = <<Tagged(version), version>>

\* A call inside fetchReleaseNotes has requested exactly what its stage says.
C18_Requests ==
    \A i \in 1..Len(wPending) :
        LET c == wPending[i] IN
        /\ c.stage = "getVersion" => c.requests = <<>>
        /\ c.stage = "tagged" => c.requests = <<Tagged(c.version)>>
        /\ c.stage = "untagged" => c.requests = <<Tagged(c.version), c.version>>
        /\ c.stage \in {"json", "fetched"} => RequestedInOrder(c.requests, c.version)

\* fetchReleaseNotes returns inside the call at position i, in the catch
\* clause or not as failed says, with the requests made so far and no other:
\* a direct call fulfils, a caller is left to resume.
C18_Returns(i, failed) ==
    /\ wPending[i].stage \in FetchStages
    /\ \/ /\ wPending[i].op = "fetchReleaseNotes"
          /\ wPending' = RemoveAt(wPending, i)
          /\ wSettled'.status = "fulfilled" /\ wSettled'.failed = failed
          /\ wSettled'.requests = wPending[i].requests
       \/ /\ wPending[i].op # "fetchReleaseNotes"
          /\ Len(wPending') = Len(wPending)
          /\ wPending'[i] = [wPending[i] EXCEPT !.stage = "fetched", !.failed = failed]

\* A step in which a not-found response arrives: the first is followed by
\* the untagged request, the second by none.
C18_RetryStep ==
    \A i \in 1..Len(wPending) :
        fetch_resolved(i, FALSE) =>
            /\ wPending[i].stage = "tagged" =>
                    /\ Len(wPending') = Len(wPending)
                    /\ wPending'[i].requests = <<Tagged(wPending[i].version), wPending[i].version>>
            /\ wPending[i].stage = "untagged" =>
                    /\ C18_Returns(i, TRUE)
                    /\ wError' = {"Release not found"}

\* A step in which fetchReleaseNotes returns inside the call at position i.
C18_SettleStep ==
    \A i \in 1..Len(wPending), failed \in BOOLEAN :
        C18_Returns(i, failed) =>
            /\ ~wIsLoading'
            /\ release' # {}
            /\ failed =>
                    /\ release' = {FallbackRelease(wPending[i].version)}
                    /\ \E text \in wError' : text # ""

\* A step in which a caller of fetchReleaseNotes resumes: it fulfils, having
\* requested nothing more.
C18_ResumeStep ==
    \A i \in 1..Len(wPending) :
        (wPending[i].stage = "fetched" /\ wPending' = RemoveAt(wPending, i)) =>
            /\ wSettled'.status = "fulfilled"
            /\ wSettled'.requests = wPending[i].requests
            /\ release' # {}

\* C18: fetchReleaseNotes(version) requests v<version> first and, on a
\* not-found response, <version> once, and nothing else; when both fail
\* release is the fallback record for the requested version and error a
\* non-empty message; on every path the call fulfils with isLoading false and
\* release non-null.
C18_FetchWithOneRetry ==
    /\ [](C18_Requests)
    /\ [](wSettled.status \in {"none", "fulfilled"})
    /\ [][C18_RetryStep /\ C18_SettleStep /\ C18_ResumeStep]_vars

\* Both requests of fetchReleaseNotes(1) were answered not-found.
C18_Witness ==
    /\ wSettled.op = "fetchReleaseNotes" /\ wSettled.failed
    /\ wSettled.requests = <<Tagged(V1), V1>>
    /\ release = {FallbackRelease(V1)}
    /\ wError = {"Release not found"}
    /\ ~wIsLoading /\ wPending = <<>>

C19_DismissStep ==
    dismiss =>
        /\ ~isOpen'
        /\ release # {} => lastSeen' = {(CHOOSE r \in release : TRUE).version}
        /\ release = {} => lastSeen' = lastSeen

\* The marker changes in a dismiss or in the first-run return of checkForWhatsNew.
C19_WriteStep ==
    lastSeen' # lastSeen =>
        \/ dismiss
        \/ lastSeen = {} /\ wSettled'.op = "checkForWhatsNew" /\ wSettled'.wrote

\* C19: dismiss() closes the modal and stores the version of the release it
\* holds, which need not be the application's version, leaving the marker
\* alone when it holds none; nothing but dismiss and the first-run branch of
\* checkForWhatsNew writes the marker.
C19_DismissMarks == [][C19_DismissStep /\ C19_WriteStep]_vars

\* The application is at version 2, the release shown is version 1, and
\* dismiss has stored 1 as the marker.
C19_Witness ==
    /\ wSettled.op = "dismiss" /\ wSettled.wrote
    /\ \E r \in release : r.version = V1
    /\ lastSeen = {V1}
    /\ ~isOpen

\* ------------------------------------ projects store, cross-entity: claims
CommandsInFlight == Len(SelectSeq(inflight, LAMBDA c : c.op \in CrossOps))
ReloadsInFlight == Len(SelectSeq(inflight, LAMBDA c : c.caller # "" /\ c.returned = {}))
\* The reload at position i is answered in this step: its method returns and
\* the method that awaits it is left to resume.
ReloadAnswered(i) ==
    /\ inflight[i].caller # "" /\ inflight[i].returned = {}
    /\ inflight' = [inflight EXCEPT ![i].returned = {settled'}]
\* The method awaiting the reload at position i resumes in this step.
CallerResumed(i) ==
    /\ inflight[i].caller # "" /\ inflight[i].returned # {}
    /\ inflight' = RemoveAt(inflight, i)
ReloadOf(op) == IF op \in ProjectOps THEN "loadProjects" ELSE "loadGlobalMcps"

\* A step in which a cross-entity operation is called.
C20_CallStep ==
    CommandsInFlight' > CommandsInFlight =>
        /\ UNCHANGED <<projects, globalMcps>>
        /\ ReloadsInFlight' = ReloadsInFlight

\* A step in which the backend command of the operation at position i settles:
\* with success, one reload of the affected collection takes its place; with
\* failure the caller gets the rejection and nothing is reloaded.
C20_CommandStep ==
    \A i \in 1..Len(inflight) :
        (inflight[i].op \in CrossOps /\ CommandsInFlight' < CommandsInFlight
            /\ SubSeq(inflight', 1, Len(inflight) - 1) = RemoveAt(inflight, i)) =>
            /\ UNCHANGED <<projects, globalMcps>>
            /\ \/ /\ Len(inflight') = Len(inflight)
                  /\ ReloadsInFlight' = ReloadsInFlight + 1
                  /\ inflight'[Len(inflight')].op = ReloadOf(inflight[i].op)
                  /\ inflight'[Len(inflight')].caller = inflight[i].op
                  /\ settled' = settled
               \/ /\ Len(inflight') = Len(inflight) - 1
                  /\ ReloadsInFlight' = ReloadsInFlight
                  /\ settled'.op = inflight[i].op
                  /\ settled'.status = "rejected"
                  /\ settled'.reason \in BackendErrors

\* A step in which a reload is answered, the one at some position i: a list
\* replaces the cache of its collection, no further reload follows, and the
\* operation that awaits it is yet to resume.
C20_ReloadStep ==
    ReloadsInFlight' < ReloadsInFlight =>
        \E i \in 1..Len(inflight) :
            /\ ReloadAnswered(i)
            /\ settled'.op = inflight[i].op
            /\ settled'.status = "fulfilled"
            /\ settled'.answer = NoError =>
                    IF inflight[i].op = "loadProjects"
                    THEN projects' = settled'.payload /\ UNCHANGED globalMcps
                    ELSE globalMcps' = settled'.payload /\ UNCHANGED projects
            /\ settled'.answer # NoError => UNCHANGED <<projects, globalMcps>>

\* A step in which the operation whose reload stood at position i leaves the
\* calls in flight: its reload has been answered, it fulfils, and it touches
\* no cache and issues nothing more.
C20_ResumeStep ==
    \A i \in 1..Len(inflight) :
        (inflight[i].caller # "" /\ inflight' = RemoveAt(inflight, i)) =>
            /\ inflight[i].returned # {}
            /\ settled'.op = inflight[i].caller
            /\ settled'.status = "fulfilled"
            /\ UNCHANGED <<projects, globalMcps>>

\* The caches change only as a load or reload is answered.
C20_CacheStep ==
    (projects' # projects \/ globalMcps' # globalMcps) =>
        /\ \/ Len(inflight') = Len(inflight) - 1
           \/ \E i \in 1..Len(inflight) : ReloadAnswered(i)
        /\ CommandsInFlight' = CommandsInFlight
        /\ settled'.op \in {"loadProjects", "loadGlobalMcps"}
        /\ settled'.answer = NoError

\* C20: the six cross-entity operations of the projects store never patch a
\* cache: it is unchanged until, the backend command having succeeded, one
\* full reload of the affected collection is issued and its response replaces
\* the cache; when the backend command fails, no reload is issued.
C20_ReloadNotPatch ==
    /\ [](ReloadsInFlight + CommandsInFlight <= Len(inflight))
    /\ [][C20_CallStep /\ C20_CommandStep /\ C20_ReloadStep /\ C20_ResumeStep
            /\ C20_CacheStep]_vars

\* assignMcpToProject has settled: its reload was answered with two projects,
\* which are now the cache, while a toggleGlobalMcp awaits its own reload.
C20_Witness ==
    /\ settled.op = "assignMcpToProject" /\ settled.status = "fulfilled"
    /\ settled.answer = NoError /\ projects = <<Proj1, Proj2>>
    /\ globalMcps = <<>>
    /\ Len(inflight) = 1
    /\ inflight[1].op = "loadGlobalMcps" /\ inflight[1].caller = "toggleGlobalMcp"
    /\ inflight[1].returned = {}

C21_CallStep ==
    (\E req \in Requests : create_call(req)) \/ (\E id \in McpIds : duplicate_call(id)) =>
        /\ Len(inflight') = Len(inflight) + 1
        /\ SubSeq(inflight', 1, Len(inflight)) = inflight
        /\ inflight'[Len(inflight')].op \in {"create", "duplicate"}
        /\ mcps' = mcps

C21_SettleStep ==
    \A i \in 1..Len(inflight) :
        /\ inflight[i].op \in {"create", "duplicate"}
        /\ inflight' # inflight
        /\ settled'.status = "fulfilled"
        /\ settled'.op = inflight[i].op
        /\ inflight' = RemoveAt(inflight, i)
        =>  /\ Len(mcps') = Len(mcps) + 1
            /\ \A k \in 1..Len(mcps) : mcps'[k] = mcps[k]
            /\ mcps'[Len(mcps')] = settled'.value
            /\ settled'.value \in McpPool
            /\ LoadsInFlight' = LoadsInFlight
            /\ Len(inflight') = Len(inflight) - 1

\* C21: a successful create(request) or duplicate(id) issues one backend call,
\* appends the returned record at the end of the cache (one entry longer, the
\* existing entries unchanged and in place), returns that record, and starts
\* no load of the collection.
C21_AppendsReturned == [][C21_CallStep /\ C21_SettleStep]_vars

\* duplicate(1) has just succeeded on a cache holding records 2 and 1: the
\* returned record is the third entry.
C21_Witness ==
    /\ settled.op = "duplicate" /\ settled.status = "fulfilled"
    /\ settled.value = Mcp1
    /\ mcps = <<Mcp2, Mcp1, Mcp1>>
    /\ LoadsInFlight = 0

C22_SettleStep ==
    \A i \in 1..Len(inflight) :
        /\ inflight[i].op \in {"load", "loadProjects"}
        /\ Len(inflight') = Len(inflight) - 1
        /\ settled'.op = inflight[i].op
        =>  /\ settled'.answer = NoError /\ settled'.op = "load" => mcps' = settled'.payload
            /\ settled'.answer = NoError /\ settled'.op = "loadProjects"
                  => projects' = settled'.payload
            /\ settled'.answer # NoError => mcps' = mcps /\ projects' = projects
            /\ settled'.op = "load" => projects' = projects
            /\ settled'.op = "loadProjects" => mcps' = mcps

\* C22: with overlapping load() calls on one store, each successful response
\* replaces the cache with its payload and each failed response leaves the
\* cache alone, so once they have settled the cache is the payload of the
\* successful response that resolved last, also when that call was started
\* first.
C22_LastResolvedWins ==
    /\ [](settled.op = "load" /\ settled.answer = NoError => mcps = settled.payload)
    /\ [](settled.op = "loadProjects" /\ settled.answer = NoError
            => projects = settled.payload)
    /\ [][C22_SettleStep]_vars

\* Two load() calls overlapped, the one started later settled first, and the
\* one started first has now resolved last with an empty list: the cache is
\* that empty list and nothing is in flight.
C22_Witness ==
    /\ inflight = <<>>
    /\ settled.op = "load" /\ settled.answer = NoError
    /\ settled.mark = Overtaken
    /\ settled.payload = <<>> /\ mcps = <<>>
    /\ projects = <<Proj1, Proj2>>

UniqueIds(list) == \A j, k \in 1..Len(list) : list[j].id = list[k].id => j = k

\* The cache never holds one id twice, overlapping calls included.
C23_Unique == UniqueIds(mcps)

\* C23: against a backend that keeps pairwise distinct ids, answers
\* get_all_mcps with its collection and stores created and duplicated records
\* under fresh ids, no two cache entries share an id as long as the backend
\* has handled no call while another call of the store was pending.
C23_UniqueWhenAwaited ==
    /\ UniqueIds(backend.mcps)
    /\ ~backend.raced => UniqueIds(mcps)

\* Calls awaited one after the other have left two records in the cache, the
\* second one a duplicate of the first under a fresh id.
C23_Witness ==
    /\ ~backend.raced
    /\ settled.op = "duplicate" /\ settled.status = "fulfilled"
    /\ settled.value = Stored(2)
    /\ mcps = <<Revised(1), Stored(2)>>
    /\ inflight = <<>>

C24_FireStep ==
    \A t \in timers :
        timers' = timers \ {t} =>
            /\ notifications' = Without(notifications, t.id)
            /\ \A k \in 1..Len(notifications) :
                  notifications[k].id # t.id => \E j \in 1..Len(notifications') :
                                                   notifications'[j] = notifications[k]
            /\ (~Present(t.id) \/ t.id \in dismissed) => notifications' = notifications

C24_OneCallback ==
    /\ \A t1, t2 \in timers : t1.id = t2.id => t1 = t2
    /\ \A k \in 1..Len(addLog) :
          /\ addLog[k].duration = 0 => ~TimerPending(addLog[k].id)
          /\ \A t \in timers : t.id = addLog[k].id => t.due = addLog[k].at + addLog[k].duration

\* C24: a scheduled callback that fires after its notification was removed by
\* remove(id) or clear() leaves the list as it is, later notifications
\* included; a notification has at most one scheduled callback, and none when
\* its duration is 0.
C24_StaleTimerHarmless == []C24_OneCallback /\ [][C24_FireStep]_vars

\* The first notification was removed by hand before its callback was due; the
\* callback has fired since, and a notification added in between is still in
\* the list.
C24_Witness ==
    /\ Len(addLog) >= 2
    /\ addLog[1].duration > 0 /\ addLog[1].id \in dismissed
    /\ ~TimerPending(addLog[1].id) /\ now >= addLog[1].at + addLog[1].duration
    /\ addLog[2].at < addLog[1].at + addLog[1].duration
    /\ Present(addLog[2].id)
    /\ \E k \in 1..Len(notifications) :
          notifications[k].id = addLog[2].id /\ notifications[k].duration = addLog[2].duration

C25_CallStep ==
    (Len(dInflight') = Len(dInflight) + 1 /\ dInflight'[Len(dInflight')].via = "toggle") =>
        /\ dInflight'[Len(dInflight')].op = (IF isEnabled THEN "disable" ELSE "enable")
        /\ isEnabled' = isEnabled /\ logFilePath' = logFilePath

C25_SettleStep ==
    \A i \in 1..Len(dInflight) :
        /\ SwitchReturned(i)
        /\ dSettled'.status = "fulfilled"
        =>  /\ dSettled'.op = "disable" => ~isEnabled' /\ logFilePath' = logFilePath
            /\ dSettled'.op = "enable" =>
                  /\ isEnabled' /\ logFilePath' = {dSettled'.result}
                  /\ dSettled'.result \in LogPaths
            /\ dSettled'.via = "toggle" => (isEnabled' <=> dSettled'.op = "enable")

\* Between the call and the settling of a backend call neither field changes.
C25_HeldStep ==
    (dInflight' = dInflight \/ Len(dInflight') > Len(dInflight)) =>
        isEnabled' = isEnabled /\ logFilePath' = logFilePath

\* A step in which toggle() resumes after its await: it settles as the call
\* it awaited did, and changes neither field.
C25_ResumeStep ==
    \A i \in 1..Len(dInflight) :
        ToggleResumed(i) =>
            /\ \E r \in dInflight[i].returned :
                    /\ dSettled'.status = r.status
                    /\ dSettled'.reason = r.reason
            /\ dSettled'.via = dInflight[i].op
            /\ isEnabled' = isEnabled /\ logFilePath' = logFilePath

\* A step in which toggle() fulfils: isEnabled is then the negation of what
\* it was when toggle() was called.
C25_NegatedStep ==
    \A i \in 1..Len(dInflight) :
        (ToggleResumed(i) /\ dSettled'.status = "fulfilled") =>
            (isEnabled' <=> dInflight[i].op = "enable")

\* C25 as stated: a successful disable() clears isEnabled and leaves
\* logFilePath alone; a successful enable() stores the path the backend
\* returned and sets isEnabled; after a successful toggle() isEnabled is the
\* negation of what it was when toggle() was called.
C25_ToggleNegates ==
    [][C25_CallStep /\ C25_SettleStep /\ C25_HeldStep /\ C25_NegatedStep]_vars

\* C25: a successful disable() clears isEnabled and leaves logFilePath alone; a
\* successful enable() stores the path the backend returned and sets
\* isEnabled; toggle() calls disable() when isEnabled was true at the call and
\* enable() otherwise, so the return of that call sets isEnabled to the
\* negation of what it was at the call of toggle(); toggle() settles in a
\* later step, as the awaited call did and without changing either field.
C25_SwitchEffects ==
    [][C25_CallStep /\ C25_SettleStep /\ C25_HeldStep /\ C25_ResumeStep]_vars

\* toggle() was called on a disabled relay and has fulfilled, yet the relay is
\* disabled: a disable() answered between the return of the enable() that
\* toggle() awaited and the resumption of toggle().
C25_Witness ==
    /\ dSettled.op = "toggle" /\ dSettled.via = "enable" /\ dSettled.status = "fulfilled"
    /\ ~isEnabled /\ logFilePath = {"/logs/b.log"}
    /\ ~dIsLoading /\ dInflight = <<>>

\* A step in which the fetch started for a checkForWhatsNew or
\* showCurrentReleaseNotes call settles: isLoading is cleared, a release held.
C26_FetchedStep ==
    \A i \in 1..Len(wPending) :
        (Len(wPending') = Len(wPending) /\ wPending[i].stage \in FetchStages
            /\ wPending'[i].stage = "fetched") =>
                ~wIsLoading' /\ release' # {} /\ isOpen' = isOpen

\* A step in which isOpen becomes true: a call whose fetch has settled resumes.
C26_OpenStep ==
    (~isOpen /\ isOpen') =>
        /\ release' # {} /\ release' = release /\ wIsLoading' = wIsLoading
        /\ wSettled'.op \in {"checkForWhatsNew", "showCurrentReleaseNotes"}
        /\ \E i \in 1..Len(wPending) :
              /\ wPending' = RemoveAt(wPending, i)
              /\ wPending[i].op = wSettled'.op
              /\ wPending[i].stage = "fetched"
              /\ wSettled'.requests = wPending[i].requests

C26_CloseStep ==
    (isOpen /\ ~isOpen') => wSettled'.op = "dismiss" /\ wPending' = wPending

C26_LoadingStep ==
    \A i \in 1..Len(wPending) :
        (Len(wPending') = Len(wPending) /\ wPending[i].stage = "getVersion"
            /\ wPending'[i].stage = "tagged") => wIsLoading' /\ isOpen' = isOpen

\* C26: the release notification goes from closed through loading to open: a
\* release record is held whenever isOpen is true, isOpen is set only by a
\* call resuming after the fetch started for it has settled and cleared
\* isLoading, and only dismiss sets it back to false.
C26_ClosedLoadingOpen ==
    /\ [](isOpen => release # {})
    /\ [](\A i \in 1..Len(wPending) : wPending[i].stage = "fetched" => release # {})
    /\ [][C26_FetchedStep /\ C26_OpenStep /\ C26_CloseStep /\ C26_LoadingStep]_vars

\* checkForWhatsNew has fetched the notes of a changed version and opened the
\* notification on them.
C26_Witness ==
    /\ isOpen /\ ~wIsLoading /\ wPending = <<>>
    /\ wSettled.op = "checkForWhatsNew" /\ wSettled.requests = <<Tagged(V2)>>
    /\ release = {parseRelease(Data2)}
    /\ lastSeen = {V1}

ProjectLoadsInFlight == Len(SelectSeq(inflight, LAMBDA c : c.op = "loadProjects"))

\* The field the settled load's store keeps its failure in.
ErrorOf(op) == IF op = "load" THEN error ELSE pError
Quiet(op) == IF op = "load" THEN LoadsInFlight = 0 ELSE ProjectLoadsInFlight = 0

\* With no load() in flight, error is set exactly when the load() that settled
\* last failed, overlapping calls included.
C27_Exact ==
    (settled.op \in {"load", "loadProjects"} /\ Quiet(settled.op)) =>
        (ErrorOf(settled.op) # {} <=> settled.answer # NoError)

\* C27: with no load() in flight, error holds the failure of the load() that
\* settled last when that load failed, and is null when that load succeeded
\* and no other load() of the store overlapped it.
C27_ErrorReflectsLastLoad ==
    (settled.op \in {"load", "loadProjects"} /\ Quiet(settled.op)) =>
        /\ settled.answer # NoError => ErrorOf(settled.op) = {ExpectedText(settled.answer)}
        /\ (settled.answer = NoError /\ settled.mark = Followed) => ErrorOf(settled.op) = {}

\* A load() that failed was followed, after it had settled, by one that
\* succeeded: the cache is filled and error is null again.
C27_Witness ==
    /\ inflight = <<>>
    /\ settled.op = "load" /\ settled.answer = NoError /\ settled.mark = Followed
    /\ error = {} /\ mcps = <<Mcp2, Mcp1>>
    /\ pError = {"denied"}

\* The relay is enabled and shows no log path.
Pathless == isEnabled /\ logFilePath = {}

\* In every reachable state an enabled relay has a log path.
C28_EnabledHasPath == ~Pathless

\* A step of load(): one of its two backend calls is answered.
C28_LoadStep ==
    \E i \in 1..Len(dInflight) :
        /\ dInflight[i].op \in {"load", "loadPath"}
        /\ \/ dInflight' = RemoveAt(dInflight, i)
           \/ /\ dInflight[i].op = "load"
              /\ Len(dInflight') = Len(dInflight)
              /\ dInflight'[Len(dInflight')].op = "loadPath"

C28_SwitchStep ==
    \A i \in 1..Len(dInflight) :
        ((SwitchReturned(i) \/ ToggleResumed(i)) /\ ~Pathless) => ~Pathless'

\* C28: enable, disable and toggle never leave the relay enabled without a
\* log path, whether the backend succeeds or fails; the relay gets into that
\* state only in a step of load().
C28_PathlessOnlyByLoad ==
    [][C28_SwitchStep /\ ((~Pathless /\ Pathless') => C28_LoadStep)]_vars

\* enable() has succeeded: the relay is enabled and shows the path the backend
\* returned.
C28_Witness ==
    /\ dSettled.op = "enable" /\ dSettled.via = "" /\ dSettled.status = "fulfilled"
    /\ isEnabled /\ logFilePath = {"/logs/a.log"} /\ dSettled.result = "/logs/a.log"
    /\ dInflight = <<>> /\ ~dIsLoading

\* The version a dismissal marks is the application's, whichever way the
\* release record was obtained.
C29_ReleaseIsCurrent == release # {} => Some(release).version = V2

C29_DismissStep == (isOpen /\ ~isOpen') => lastSeen' = {V2}

C29_MarkedStep == lastSeen = {V2} => lastSeen' = {V2}

\* With the marker at the current version a check that learns the version
\* returns: it starts no fetch and opens nothing.
C29_CheckStep ==
    lastSeen = {V2} =>
        \A i \in 1..Len(wPending) :
            wPending[i].stage = "getVersion" =>
                /\ Len(wPending') = Len(wPending) => wPending'[i] = wPending[i]
                /\ (wPending' = RemoveAt(wPending, i) /\ wSettled'.requests = <<>>
                        /\ wSettled'.op = "checkForWhatsNew")
                      => /\ isOpen' = isOpen /\ release' = release
                         /\ wIsLoading' = wIsLoading /\ ~wSettled'.wrote

\* C29: once checkForWhatsNew has opened the notification for the current
\* version and the user has dismissed it, the marker is that version and stays
\* so, and every checkForWhatsNew that learns the version afterwards starts no
\* fetch and opens nothing, whether the release came from the tagged endpoint,
\* the untagged endpoint or the fallback.
C29_SeenOnce ==
    /\ []C29_ReleaseIsCurrent
    /\ [][C29_DismissStep /\ C29_MarkedStep /\ C29_CheckStep]_vars

\* The fallback record was shown and dismissed, and a later check has
\* returned without a fetch: the notification is closed.
C29_Witness ==
    /\ lastSeen = {V2} /\ ~isOpen /\ wPending = <<>>
    /\ release = {FallbackRelease(V2)} /\ wError # {}
    /\ wSettled.op = "checkForWhatsNew" /\ wSettled.requests = <<>> /\ ~wSettled.wrote

\* A step in which a cross-entity operation settles for its caller, as a
\* rejection exactly when what settled is its backend command.
C30_RejectStep ==
    (Len(inflight') = Len(inflight) - 1 /\ settled'.op \in CrossOps) =>
        (settled'.status = "rejected" <=>
            \E i \in 1..Len(inflight) :
                /\ inflight[i].op = settled'.op
                /\ inflight' = RemoveAt(inflight, i)
                /\ settled'.reason \in BackendErrors)

\* A step in which the follow-up reload at position i fails: the reload does
\* not reject, and its failure is all the operation awaiting it will see.
C30_ReloadFailedStep ==
    \A i \in 1..Len(inflight) :
        (ReloadAnswered(i) /\ settled'.answer # NoError) =>
            /\ settled'.op = inflight[i].op
            /\ settled'.status = "fulfilled"
            /\ UNCHANGED <<projects, globalMcps>>
            /\ inflight[i].op = "loadProjects" =>
                  pError' = {ExpectedText(settled'.answer)} /\ ~pIsLoading'
            /\ inflight[i].op = "loadGlobalMcps" =>
                  pError' = pError /\ pIsLoading' = pIsLoading

\* A step in which the operation awaiting the reload at position i resumes:
\* it fulfils, the reload having failed or not, and changes nothing.
C30_ResumeStep ==
    \A i \in 1..Len(inflight) :
        CallerResumed(i) =>
            /\ settled'.op = inflight[i].caller
            /\ settled'.status = "fulfilled"
            /\ \E r \in inflight[i].returned : settled'.answer = r.answer
            /\ UNCHANGED <<projects, globalMcps, pError, pIsLoading>>

\* loadGlobalMcps, from its call to its answer, leaves isLoading and error alone.
C30_GlobalLoadStep ==
    \A i \in 1..Len(inflight) :
        \/ inflight[i].op = "loadGlobalMcps" /\ ReloadAnswered(i)
        \/ /\ inflight[i].op \in GlobalOps /\ Len(inflight') = Len(inflight)
           /\ inflight'[Len(inflight')].op = "loadGlobalMcps"
           /\ SubSeq(inflight', 1, Len(inflight) - 1) = RemoveAt(inflight, i)
        => pError' = pError /\ pIsLoading' = pIsLoading

\* C30: a project-store operation that reloads after its backend command
\* rejects exactly when that command fails; a failed reload is not a rejection
\* and leaves the cache it would have replaced, with the failure text in error
\* for the projects and nothing recorded for the global MCPs.
C30_OnlyCommandRejects ==
    /\ [](settled.op \in CrossOps /\ settled.status = "rejected"
            => settled.reason = settled.answer /\ settled.answer \in BackendErrors)
    /\ [][C30_RejectStep /\ C30_ReloadFailedStep /\ C30_ResumeStep
            /\ C30_GlobalLoadStep]_vars

\* The reload after toggleGlobalMcp has failed: the operation is fulfilled, the
\* global MCPs loaded before are still cached, and neither error nor isLoading
\* shows anything.
C30_Witness ==
    /\ settled.op = "toggleGlobalMcp" /\ settled.status = "fulfilled"
    /\ settled.answer = [name |-> "Error", message |-> "Network error"]
    /\ globalMcps = <<Global1, Global2>>
    /\ pError = {} /\ ~pIsLoading
    /\ inflight = <<>>
====
